---- MODULE Spec2Model ----
(***************************************************************************)
(* Slash-command dispatch, pending-format tracking and database-result     *)
(* parsing of mcp_use.agents (slash_commands.py, prompt_viewer.py).        *)
(*                                                                         *)
(* A Python str is a sequence of symbols.  A symbol stands for one         *)
(* character of an abstract alphabet: "/", " ", ":", "|", ... are the      *)
(* characters the code looks at, and a word such as "travel" is a letter   *)
(* of the alphabet that the code only ever compares as a whole.  Literals  *)
(* of the program are cut into symbols at the places where the code (or    *)
(* an input line) can cut them.                                            *)
(***************************************************************************)
EXTENDS Integers, Sequences, FiniteSets, TLC

\* ------------------------------------------------------------------ bounds
MaxArgs == 2        \* most free argument tokens of a generated input line
MaxPending == 2     \* most entries of pending_format_requests explored
MaxLen == 4         \* longest raw line of the parse_command specification

\* ------------------------------------------------------------ str methods
IsSpace(c) == c \in {" ", "\n", "\t"}

\* str.lower() on one character: the upper-case letters of the alphabet.
Lower(c) ==
    CASE c = "T" -> "t"
      [] c = "P" -> "p"
      [] c = "TRAVEL" -> "travel"
      [] c = "PROMPTS" -> "prompts"
      [] c = "FOO" -> "foo"
      [] c = "Flights" -> "flights"
      [] c = "Timeout" -> "timeout"
      [] c = "Connection" -> "connection"
      [] c = "Failed" -> "failed"
      [] c = "ERROR" -> "error"
      [] c = "Pricing" -> "pricing"
      [] OTHER -> c

\* A variant of LowerText that leaves the letters as they are; C11 tells the
\* two apart.
LowerText_same(s) == s

LowerText(s) == [i \in 1..Len(s) |-> Lower(s[i])]

RECURSIVE LStrip(_)
LStrip(s) == IF s # <<>> /\ IsSpace(Head(s)) THEN LStrip(Tail(s)) ELSE s

RECURSIVE RStrip(_)
RStrip(s) ==
    IF s # <<>> /\ IsSpace(s[Len(s)]) THEN RStrip(SubSeq(s, 1, Len(s) - 1)) ELSE s

Strip(s) == RStrip(LStrip(s))

StartsWith(s, p) == Len(s) >= Len(p) /\ SubSeq(s, 1, Len(p)) = p

\* p in s
Contains(s, p) == \E i \in 0..(Len(s) - Len(p)) : SubSeq(s, i + 1, i + Len(p)) = p

\* The least index >= 1 of s at which P holds, Len(s) + 1 when none.
FirstSpace(s) ==
    IF \E i \in 1..Len(s) : IsSpace(s[i])
    THEN CHOOSE i \in 1..Len(s) : IsSpace(s[i]) /\ \A j \in 1..(i - 1) : ~IsSpace(s[j])
    ELSE Len(s) + 1

FirstOf(s, c) ==
    IF \E i \in 1..Len(s) : s[i] = c
    THEN CHOOSE i \in 1..Len(s) : s[i] = c /\ \A j \in 1..(i - 1) : s[j] # c
    ELSE Len(s) + 1

\* str.split(): the maximal runs of non-whitespace characters.
RECURSIVE Split(_)
Split(s) ==
    LET t == LStrip(s) IN
    IF t = <<>> THEN <<>>
    ELSE LET n == FirstSpace(t) IN
         <<SubSeq(t, 1, n - 1)>> \o Split(SubSeq(t, n, Len(t)))

\* str.split(c) for a one-character separator: never empty, keeps empty parts.
RECURSIVE SplitOn(_, _)
SplitOn(s, c) ==
    LET n == FirstOf(s, c) IN
    IF n > Len(s) THEN <<s>>
    ELSE <<SubSeq(s, 1, n - 1)>> \o SplitOn(SubSeq(s, n + 1, Len(s)), c)

\* sep.join(parts)
RECURSIVE Join(_, _)
Join(parts, sep) ==
    IF parts = <<>> THEN <<>>
    ELSE IF Len(parts) = 1 THEN parts[1]
    ELSE parts[1] \o sep \o Join(Tail(parts), sep)

\* str.replace(c, by) for a one-character c.
RECURSIVE Replace(_, _, _)
Replace(s, c, by) ==
    IF s = <<>> THEN <<>>
    ELSE (IF Head(s) = c THEN by ELSE <<Head(s)>>) \o Replace(Tail(s), c, by)

\* s[:n]
Take(s, n) == SubSeq(s, 1, IF Len(s) < n THEN Len(s) ELSE n)

Range(f) == {f[i] : i \in DOMAIN f}

\* --------------------------------------------------- outcomes of a call
Ret(v) == [kind |-> "return", val |-> v]
Raise(ty, m) == [kind |-> "raise", type |-> ty, msg |-> m]

\* Python's None where a str is expected (Optional[str]): a text no input holds.
NoneT == <<"<None>">>
\* str(x) / f"{x}" of an Optional[str]
StrOpt(x) == IF x = NoneT THEN <<"None">> ELSE x
\* the truth value of an Optional[str]
Truthy(x) == x # NoneT /\ x # <<>>


\* ------------------------------------------------------- Python values
\* The values a query result can hold: str, number, None, list, dict.  A
\* dict keeps its keys in insertion order (k) beside the mapping (m).
PyStr(s) == [t |-> "str", v |-> s]
PyNum(n) == [t |-> "num", v |-> n]
PyNone == [t |-> "none"]
PyList(xs) == [t |-> "list", v |-> xs]
PyDict(ks, f) == [t |-> "dict", k |-> ks, m |-> f]
EmptyDict == PyDict(<<>>, [x \in {} |-> PyNone])

\* key in d, d[key] = v, d.get(key, default)
DictHas(d, key) == key \in Range(d.k)
DictPut(d, key, v) ==
    [d EXCEPT !.k = IF key \in Range(d.k) THEN d.k ELSE Append(d.k, key),
              !.m = [x \in Range(d.k) \cup {key} |-> IF x = key THEN v ELSE d.m[x]]]
DictGet(d, key, default) == IF DictHas(d, key) THEN d.m[key] ELSE default

\* bool(x)
PyTruthy(x) ==
    CASE x.t = "str" -> x.v # <<>>
      [] x.t = "num" -> x.v # "0"
      [] x.t = "none" -> FALSE
      [] x.t = "list" -> x.v # <<>>
      [] x.t = "dict" -> x.k # <<>>

IsNumber(c) == c \in {"0", "1", "2", "3", "42"}

\* json.dumps(x)
RECURSIVE Dumps(_)
Dumps(x) ==
    CASE x.t = "str" -> <<"\"">> \o x.v \o <<"\"">>
      [] x.t = "num" -> <<x.v>>
      [] x.t = "none" -> <<"null">>
      [] x.t = "list" ->
            <<"[">> \o Join([i \in 1..Len(x.v) |-> Dumps(x.v[i])], <<",", " ">>) \o <<"]">>
      [] x.t = "dict" ->
            <<"{">>
            \o Join([i \in 1..Len(x.k) |->
                       <<"\"">> \o x.k[i] \o <<"\"", ":", " ">> \o Dumps(x.m[x.k[i]])],
                    <<",", " ">>)
            \o <<"}">>

\* json.loads(s): a recursive-descent reading of the document; Fail stands for
\* json.JSONDecodeError.
Fail == [ok |-> FALSE, val |-> PyNone, next |-> 0]
Ok(v, n) == [ok |-> TRUE, val |-> v, next |-> n]

RECURSIVE SkipWs(_, _)
SkipWs(s, i) == IF i <= Len(s) /\ IsSpace(s[i]) THEN SkipWs(s, i + 1) ELSE i

\* s[i] is the opening quote and n the distance to the closing one.
ClosedString(s, i, n) ==
    IF n > Len(s) - i THEN Fail ELSE Ok(PyStr(SubSeq(s, i + 1, i + n - 1)), i + n + 1)

ParseString(s, i) == ClosedString(s, i, FirstOf(SubSeq(s, i + 1, Len(s)), "\""))

RECURSIVE ParseValue(_, _)
RECURSIVE ParseItems(_, _, _)
RECURSIVE ParseMembers(_, _, _)

\* After an item: "," and the next item, or "]".
ItemSep(s, j, acc) ==
    IF j > Len(s) THEN Fail
    ELSE IF s[j] = "," THEN ParseItems(s, j + 1, acc)
    ELSE IF s[j] = "]" THEN Ok(PyList(acc), j + 1)
    ELSE Fail

ItemThen(s, r, acc) ==
    IF ~r.ok THEN Fail ELSE ItemSep(s, SkipWs(s, r.next), Append(acc, r.val))

ParseItems(s, i, acc) == ItemThen(s, ParseValue(s, i), acc)

\* After a member: "," and the next member, or "}".
MemberSep(s, j, d) ==
    IF j > Len(s) THEN Fail
    ELSE IF s[j] = "," THEN ParseMembers(s, j + 1, d)
    ELSE IF s[j] = "}" THEN Ok(d, j + 1)
    ELSE Fail

MemberValue(s, key, r, acc) ==
    IF ~r.ok THEN Fail ELSE MemberSep(s, SkipWs(s, r.next), DictPut(acc, key, r.val))

MemberColon(s, key, c, acc) ==
    IF c > Len(s) \/ s[c] # ":" THEN Fail
    ELSE MemberValue(s, key, ParseValue(s, c + 1), acc)

MemberKey(s, key, acc) ==
    IF ~key.ok THEN Fail ELSE MemberColon(s, key.val.v, SkipWs(s, key.next), acc)

MemberAt(s, i, acc) ==
    IF i > Len(s) \/ s[i] # "\"" THEN Fail ELSE MemberKey(s, ParseString(s, i), acc)

ParseMembers(s, i, acc) == MemberAt(s, SkipWs(s, i), acc)

ListAt(s, j) ==
    IF j <= Len(s) /\ s[j] = "]" THEN Ok(PyList(<<>>), j + 1) ELSE ParseItems(s, j, <<>>)

DictAt(s, j) ==
    IF j <= Len(s) /\ s[j] = "}" THEN Ok(EmptyDict, j + 1) ELSE ParseMembers(s, j, EmptyDict)

ValueAt(s, i) ==
    IF i > Len(s) THEN Fail
    ELSE CASE s[i] = "\"" -> ParseString(s, i)
           [] s[i] = "null" -> Ok(PyNone, i + 1)
           [] IsNumber(s[i]) -> Ok(PyNum(s[i]), i + 1)
           [] s[i] = "[" -> ListAt(s, SkipWs(s, i + 1))
           [] s[i] = "{" -> DictAt(s, SkipWs(s, i + 1))
           [] OTHER -> Fail

ParseValue(s, i) == ValueAt(s, SkipWs(s, i))

\* Nothing but whitespace may follow the value.
Whole(s, r) == IF r.ok /\ SkipWs(s, r.next) > Len(s) THEN r ELSE Fail

Loads(s) == Whole(s, ParseValue(s, 1))

\* ------------------------------------------------------------ registry
\* self.commands: a dict from a name or alias to its SlashCommand.
SlashCommand(name, description, handler, usage, aliases) ==
    [name |-> name, description |-> description, handler |-> handler,
     usage |-> usage, aliases |-> aliases]

RECURSIVE PutAll(_, _, _)
PutAll(d, keys, v) ==
    IF keys = <<>> THEN d ELSE PutAll(DictPut(d, Head(keys), v), Tail(keys), v)

\* A variant of register_command that leaves the aliases out; C17 tells the
\* two apart.
register_command_unaliased(cmds, name, description, handler, usage, aliases) ==
    DictPut(cmds, name, SlashCommand(name, description, handler, usage, aliases))

register_command(cmds, name, description, handler, usage, aliases) ==
    LET command == SlashCommand(name, description, handler, usage, aliases)
    IN  PutAll(DictPut(cmds, name, command), command.aliases, command)

NoCommands == [k |-> <<>>, m |-> [x \in {} |-> 0]]

register_default_commands ==
    LET c1 == register_command(NoCommands, <<"travel">>,
                  <<"Initialize the travel assistant">>, "_handle_travel_init",
                  <<"/travel or /t">>,
                  << <<"t">>, <<"init-travel">>, <<"travel-init">>, <<"start">> >>)
        c2 == register_command(c1, <<"go">>,
                  <<"Quick start travel assistant (alias for /travel)">>,
                  "_handle_travel_init", <<"/go">>, << <<"g">>, <<"init">> >>)
        c3 == register_command(c2, <<"prompts">>,
                  <<"View and manage D1 database prompts">>, "_handle_prompts",
                  <<"/prompts [list|view|dashboard|search|category|edit|create|delete|update]">>,
                  << <<"p">>, <<"prompt">> >>)
        c4 == register_command(c3, <<"servers">>, <<"List available MCP servers">>,
                  "_handle_servers", <<"/servers">>, << <<"s">>, <<"list-servers">> >>)
        c5 == register_command(c4, <<"connect">>, <<"Connect to an MCP server">>,
                  "_handle_connect", <<"/connect <server-name>">>, << <<"c">> >>)
        c6 == register_command(c5, <<"tools">>, <<"List available tools">>,
                  "_handle_tools", <<"/tools [server-name]">>,
                  << <<"tool">>, <<"list-tools">> >>)
        c7 == register_command(c6, <<"help">>, <<"Show available slash commands">>,
                  "_handle_help", <<"/help [command]">>, << <<"h">>, <<"?">> >>)
    IN  register_command(c7, <<"create-prompt">>, <<"Quick create a new prompt">>,
                  "_handle_create_prompt", <<"/create-prompt <name>">>,
                  << <<"cp">>, <<"new-prompt">> >>)

\* ------------------------------------------------------------- parsing
\* (command_name, subcommand, args); (None, None, None) is NoCommand, whose
\* args no code reads.
NoCommand == [command_name |-> NoneT, subcommand |-> NoneT, args |-> <<>>]

parse_command(input_text) ==
    IF ~StartsWith(input_text, <<"/">>) THEN NoCommand
    ELSE LET command_text == Strip(Tail(input_text))
             parts == Split(command_text)
         IN  IF parts = <<>> THEN NoCommand
             ELSE [command_name |-> LowerText(parts[1]),
                   subcommand |-> IF Len(parts) > 1 THEN parts[2] ELSE NoneT,
                   args |-> IF Len(parts) > 2 THEN SubSeq(parts, 3, Len(parts)) ELSE <<>>]

is_slash_command(input_text) == StartsWith(Strip(input_text), <<"/">>)

\* ------------------------------------------------------------ handlers
\* self.pending_format_requests[key] = v
PendPut(pend, key, v) ==
    [x \in DOMAIN pend \cup {key} |-> IF x = key THEN v ELSE pend[x]]

\* What a handler leaves: the pending map and the text it returns.
Out(pend, text) == [pend |-> pend, text |-> text]

Directive == <<"use_tool_from_server">>

travel_setup_wizard == <<"# Travel Assistant Setup Wizard ...">>
travel_init_help == <<"# Travel Assistant Initialization Options ...">>

component_prompts(comp) ==
    CASE comp = <<"flights">> -> <<"flight_booking_assistant">>
      [] comp = <<"hotels">> -> <<"hotel_booking_assistant">>
      [] comp = <<"activities">> -> <<"activity_planning_assistant">>
      [] comp = <<"itinerary">> -> <<"itinerary_builder">>
      [] comp = <<"budget">> -> <<"budget_optimizer">>
      [] comp = <<"safety">> -> <<"travel_safety_advisor">>
      [] comp = <<"luxury">> -> <<"luxury_travel_specialist">>
      [] comp = <<"business">> -> <<"business_travel_assistant">>
      [] OTHER -> <<>>

RECURSIVE SelectPrompts(_)
SelectPrompts(components) ==
    IF components = <<>> THEN <<>>
    ELSE LET p == component_prompts(LowerText(Head(components))) IN
         (IF p # <<>> THEN <<p>> ELSE <<>>) \o SelectPrompts(Tail(components))

travel_custom_init(pend, components) ==
    IF components = <<>>
    THEN Out(pend, <<"Please specify components for custom initialization. ...">>)
    ELSE LET selected_prompts == SelectPrompts(components) IN
         IF selected_prompts = <<>>
         THEN Out(pend, <<"No valid components found. Available: flights, hotels, activities, itinerary, budget, safety, luxury, business">>)
         ELSE Out(PendPut(pend,
                          <<"/", "travel", " ", "custom", " ">> \o Join(components, <<" ">>),
                          <<"travel", ":", "custom_init">>),
                  Directive
                  \o <<" d1-database query {\"query\": \"SELECT name, content FROM prompts WHERE name IN ('">>
                  \o Join(selected_prompts, <<"', '">>)
                  \o <<"') OR (category = 'travel' AND name LIKE '%base%')\"}">>)

handle_travel_init(pend, subcommand, args) ==
    CASE subcommand = <<"check">> ->
            Out(PendPut(pend, <<"/", "travel", " ", "check">>, <<"prompts", ":", "list">>),
                Directive \o <<" d1-database query {\"query\": \"SELECT name, description, category FROM prompts WHERE category IN ('travel', 'system', 'travel_system', 'assistant') ORDER BY category, name\"}">>)
      [] subcommand = <<"db">> ->
            Out(PendPut(pend, <<"/", "travel", " ", "db">>, <<"travel", ":", "init">>),
                Directive \o <<" d1-database query {\"query\": \"SELECT content FROM prompts WHERE name IN (...) ORDER BY CASE name ... END LIMIT 1\"}">>)
      [] subcommand = <<"full">> ->
            Out(PendPut(pend, <<"/", "travel", " ", "full">>, <<"travel", ":", "full_init">>),
                Directive \o <<" d1-database query {\"query\": \"SELECT name, content FROM prompts WHERE category = 'travel' OR name LIKE '%travel%' ORDER BY name\"}">>)
      [] subcommand = <<"load">> ->
            IF args = <<>>
            THEN Out(pend, <<"Please specify a prompt name. Usage: /travel load <prompt_name>">>)
            ELSE LET prompt_name == Join(args, <<" ">>) IN
                 Out(PendPut(pend, <<"/", "travel", " ", "load", " ">> \o prompt_name,
                             <<"travel", ":", "load_specific">>),
                     Directive
                     \o <<" d1-database query {\"query\": \"SELECT content FROM prompts WHERE name = '">>
                     \o prompt_name \o <<"' LIMIT 1\"}">>)
      [] subcommand = <<"setup">> -> Out(pend, travel_setup_wizard)
      [] subcommand = <<"help">> -> Out(pend, travel_init_help)
      [] subcommand = <<"custom">> -> travel_custom_init(pend, args)
      [] OTHER ->
            Out(PendPut(pend, <<"/", "travel">>, <<"travel", ":", "default">>),
                Directive \o <<" prompt-server initialize_travel_assistant">>)

StripAll(parts) == [i \in 1..Len(parts) |-> PyStr(Strip(parts[i]))]

handle_prompts(pend, subcommand, args) ==
    CASE ~Truthy(subcommand) \/ subcommand = <<"list">> ->
            Out(pend, Directive \o <<" d1-database query {\"query\": \"SELECT name, description, category, tags, updated_at FROM prompts ORDER BY category, name\"}">>)
      [] subcommand = <<"view">> ->
            IF args = <<>>
            THEN Out(pend, <<"Please specify a prompt name. Usage: /prompts view <prompt_name>">>)
            ELSE Out(pend, Directive
                           \o <<" d1-database query {\"query\": \"SELECT * FROM prompts WHERE name = '">>
                           \o Join(args, <<" ">>) \o <<"' LIMIT 1\"}">>)
      [] subcommand = <<"dashboard">> ->
            Out(pend, Directive \o <<" d1-database query {\"query\": \"SELECT name, description, category, tags, created_at, updated_at FROM prompts ORDER BY category, name\"}">>)
      [] subcommand = <<"search">> ->
            IF args = <<>>
            THEN Out(pend, <<"Please specify search terms. Usage: /prompts search <keywords>">>)
            ELSE LET search_term == Join(args, <<" ">>) IN
                 Out(pend, Directive
                           \o <<" d1-database query {\"query\": \"SELECT name, description, category FROM prompts WHERE name LIKE '%">>
                           \o search_term \o <<"%' OR description LIKE '%">>
                           \o search_term \o <<"%' OR content LIKE '%">>
                           \o search_term \o <<"%' ORDER BY name\"}">>)
      [] subcommand = <<"category">> ->
            IF args = <<>>
            THEN Out(pend, Directive \o <<" d1-database query {\"query\": \"SELECT DISTINCT category, COUNT(*) as count FROM prompts GROUP BY category ORDER BY category\"}">>)
            ELSE Out(pend, Directive
                           \o <<" d1-database query {\"query\": \"SELECT name, description FROM prompts WHERE category = '">>
                           \o Join(args, <<" ">>) \o <<"' ORDER BY name\"}">>)
      [] subcommand = <<"edit">> ->
            IF args = <<>>
            THEN Out(pend, <<"Please specify a prompt name. Usage: /prompts edit <prompt_name>">>)
            ELSE Out(pend, <<"To edit the prompt '">> \o Join(args, <<" ">>)
                           \o <<"', follow these steps: ...">>)
      [] subcommand = <<"create">> ->
            IF args = <<>>
            THEN Out(pend, <<"Please specify a prompt name. Usage: /prompts create <prompt_name>">>)
            ELSE LET prompt_name == Join(args, <<" ">>) IN
                 Out(PendPut(pend, <<"create", ":">> \o prompt_name, <<"create_workflow">>),
                     <<"Creating new prompt '">> \o prompt_name
                     \o <<"'.\n\nPlease provide the following details: ...">>)
      [] subcommand = <<"update">> ->
            IF Len(args) < 2
            THEN Out(pend, <<"Please specify prompt name and field to update. Usage: /prompts update <prompt_name> <field> <new_value>">>)
            ELSE LET prompt_name == args[1]
                     field == args[2]
                     new_value == IF Len(args) > 2
                                  THEN Join(SubSeq(args, 3, Len(args)), <<" ">>) ELSE <<>>
                     valid_fields == {<<"description">>, <<"content">>, <<"category">>, <<"tags">>}
                     value == IF field = <<"tags">>
                              THEN Dumps(PyList(StripAll(SplitOn(new_value, ","))))
                              ELSE Replace(new_value, "'", <<"'", "'">>)
                     update_query == <<"UPDATE prompts SET ">> \o field \o <<" = '">> \o value
                                     \o <<"', updated_at = CURRENT_TIMESTAMP WHERE name = '">>
                                     \o prompt_name \o <<"'">>
                 IN  IF field \notin valid_fields
                     THEN Out(pend, <<"Invalid field '">> \o field
                                    \o <<"'. Valid fields: description, content, category, tags">>)
                     ELSE IF new_value = <<>>
                     THEN Out(pend, <<"Please provide a new value for ">> \o field \o <<".">>)
                     ELSE Out(pend, Directive \o <<" d1-database execute {\"query\": \"">>
                                    \o update_query \o <<"\"}">>)
      [] subcommand = <<"delete">> ->
            IF args = <<>>
            THEN Out(pend, <<"Please specify a prompt name. Usage: /prompts delete <prompt_name>">>)
            ELSE Out(pend, Directive
                           \o <<" d1-database execute {\"query\": \"DELETE FROM prompts WHERE name = '">>
                           \o Join(args, <<" ">>) \o <<"'\"}">>)
      [] OTHER ->
            Out(pend, <<"Unknown subcommand: ">> \o subcommand
                      \o <<". Available: list, view, dashboard, search, category, edit, create, update, delete">>)

handle_servers(pend, subcommand, args) ==
    Out(pend, <<"Please list the available MCP servers.">>)

handle_connect(pend, subcommand, args) ==
    IF ~Truthy(subcommand)
    THEN Out(pend, <<"Please specify a server name. Usage: /connect <server-name>">>)
    ELSE Out(pend, <<"Please connect to the MCP server named '">> \o subcommand \o <<"'.">>)

handle_tools(pend, subcommand, args) ==
    IF Truthy(subcommand)
    THEN Out(pend, <<"Please search for tools available on the '">> \o subcommand
                   \o <<"' server.">>)
    ELSE Out(pend, <<"Please search for all available MCP tools.">>)

\* unique_commands (lines 656-660): the first command met under each name,
\* in the order of the keys.
RECURSIVE UniqueCommands(_, _, _)
UniqueCommands(cmds, keys, seen) ==
    IF keys = <<>> THEN seen
    ELSE UniqueCommands(cmds, Tail(keys),
                        IF \E i \in 1..Len(seen) : seen[i].name = cmds.m[Head(keys)].name
                        THEN seen
                        ELSE Append(seen, cmds.m[Head(keys)]))

HelpEntry(cmd) ==
    <<"* **/">> \o cmd.name \o <<"** - ">> \o cmd.description
    \o (IF cmd.aliases # <<>>
        THEN <<" (aliases: ">>
             \o Join([i \in 1..Len(cmd.aliases) |-> <<"/">> \o cmd.aliases[i]], <<", ">>)
             \o <<")">>
        ELSE <<>>)
    \o <<"\n  Usage: ">> \o cmd.usage \o <<"\n\n">>

handle_help(pend, cmds, subcommand, args) ==
    IF Truthy(subcommand)
    THEN IF DictHas(cmds, subcommand)
         THEN LET cmd == cmds.m[subcommand] IN
              Out(pend, <<"**/">> \o cmd.name \o <<"** - ">> \o cmd.description
                        \o <<"\nUsage: ">> \o cmd.usage)
         ELSE Out(pend, <<"Unknown command: ">> \o subcommand)
    ELSE LET unique_commands == UniqueCommands(cmds, cmds.k, <<>>) IN
         Out(pend, <<"**Available slash commands:**\n\n">>
                   \o Join([i \in 1..Len(unique_commands) |->
                              HelpEntry(unique_commands[i])], <<>>))

\* The second definition of _handle_create_prompt (line 670) replaces the first.
handle_create_prompt(pend, subcommand, args) ==
    IF Len(args) < 4
    THEN Out(pend, <<"Usage: /create-prompt <name> <description> <category> <content> [tags] ...">>)
    ELSE LET name == args[1]
             tags == IF Len(args) > 4 THEN args[5] ELSE <<>>
             tags_json == IF tags # <<>>
                          THEN Dumps(PyList(StripAll(SplitOn(tags, ","))))
                          ELSE <<"[", "]">>
             description == Replace(args[2], "'", <<"'", "'">>)
             category == args[3]
             content == Replace(args[4], "'", <<"'", "'">>)
         IN  Out(pend, Directive \o <<" d1-database execute {\"query\": \"">>
                       \o <<"INSERT INTO prompts (name, description, category, content, tags, created_at, updated_at) VALUES ('">>
                       \o name \o <<"', '">> \o description \o <<"', '">> \o category
                       \o <<"', '">> \o content \o <<"', '">> \o tags_json
                       \o <<"', CURRENT_TIMESTAMP, CURRENT_TIMESTAMP)">> \o <<"\"}">>)

\* command.handler(agent, subcommand, args)
CallHandler(handler, pend, cmds, subcommand, args) ==
    CASE handler = "_handle_travel_init" -> handle_travel_init(pend, subcommand, args)
      [] handler = "_handle_prompts" -> handle_prompts(pend, subcommand, args)
      [] handler = "_handle_servers" -> handle_servers(pend, subcommand, args)
      [] handler = "_handle_connect" -> handle_connect(pend, subcommand, args)
      [] handler = "_handle_tools" -> handle_tools(pend, subcommand, args)
      [] handler = "_handle_help" -> handle_help(pend, cmds, subcommand, args)
      [] handler = "_handle_create_prompt" -> handle_create_prompt(pend, subcommand, args)

\* ---------------------------------------------------------- dispatcher
\* No fault: the handler returns.  Otherwise the message of the Exception the
\* awaited handler raises (line 162).
NoFault == <<>>

\* A variant of UnknownCommand that does not name the command; C7 tells the
\* two apart.
UnknownCommand_anonymous(command_name) ==
    <<"Unknown command. Use ", "/", "help", " for available commands.">>

UnknownCommand(command_name) ==
    <<"Unknown command: ", "/">> \o StrOpt(command_name)
    \o <<". Use ", "/", "help", " for available commands.">>

\* A variant of HandlerFailed without the except clause: the handler's
\* exception leaves execute_command; C8 tells the two apart.
HandlerFailed_propagates(pend, fault) ==
    [pend |-> pend, out |-> Raise("Exception", fault)]

\* except Exception as e (lines 170-172)
HandlerFailed(pend, fault) ==
    [pend |-> pend, out |-> Ret(<<"Error executing command: ">> \o fault)]

\* Lines 164-169: h is what the handler left and returned.
TrackResult(p, h, input_text) ==
    [pend |-> IF p.command_name = <<"prompts">> /\ StartsWith(h.text, Directive)
              THEN PendPut(h.pend, input_text,
                           p.command_name \o <<":">>
                           \o (IF Truthy(p.subcommand) THEN p.subcommand ELSE <<"list">>))
              ELSE h.pend,
     out |-> Ret(h.text)]

Dispatch(cmds, pend, input_text, fault, p) ==
    IF ~DictHas(cmds, p.command_name)
    THEN [pend |-> pend, out |-> Ret(UnknownCommand(p.command_name))]
    ELSE IF fault # NoFault THEN HandlerFailed(pend, fault)
    ELSE TrackResult(p,
                     CallHandler(cmds.m[p.command_name].handler, pend, cmds,
                                 p.subcommand, p.args),
                     input_text)

execute_command(cmds, pend, input_text, fault) ==
    Dispatch(cmds, pend, input_text, fault, parse_command(input_text))

should_format_result(pend, command_text) == command_text \in DOMAIN pend

\* -------------------------------------------------------- result parser
error_patterns ==
    { <<"connection", " ", "failed">>, <<"database", " ", "error">>,
      <<"query", " ", "failed">>, <<"server", " ", "error">>,
      <<"not", " ", "found">>, <<"timeout">>,
      <<"failed", " ", "to", " ", "connect">> }

\* [h.strip() for h in line.split('|') if h.strip()]
RECURSIVE NonEmpty(_)
NonEmpty(parts) ==
    IF parts = <<>> THEN <<>>
    ELSE (IF Strip(Head(parts)) # <<>> THEN <<Strip(Head(parts))>> ELSE <<>>)
         \o NonEmpty(Tail(parts))

Cells(line) == NonEmpty(SplitOn(line, "|"))

\* dict(zip(headers, values))
RECURSIVE ZipDict(_, _, _)
ZipDict(headers, values, acc) ==
    IF headers = <<>> \/ values = <<>> THEN acc
    ELSE ZipDict(Tail(headers), Tail(values),
                 DictPut(acc, Head(headers), PyStr(Head(values))))

\* A variant of Accepts that takes a row of any length, leaving zip to cut
\* it; C13 tells the two apart.
Accepts_any(headers, values) == TRUE

\* if len(values) == len(headers)
Accepts(headers, values) == Len(values) = Len(headers)

\* The loop of lines 102-110: header is <<>> while header_line is None.
RECURSIVE TableRows(_, _, _, _)
TableRows(lines, seen, headers, rows) ==
    IF lines = <<>> THEN rows
    ELSE LET line == Head(lines) IN
         IF Contains(line, <<"|">>) /\ ~StartsWith(Strip(line), <<"-">>)
         THEN IF ~seen
              THEN TableRows(Tail(lines), TRUE, Cells(line), rows)
              ELSE LET values == Cells(line) IN
                   TableRows(Tail(lines), seen, headers,
                             IF Accepts(headers, values)
                             THEN Append(rows, ZipDict(headers, values, EmptyDict))
                             ELSE rows)
         ELSE TableRows(Tail(lines), seen, headers, rows)

parse_text_results(text) ==
    LET lines == SplitOn(Strip(text), "\n") IN
    IF Contains(lines[1], <<"|">>)
    THEN PyList(TableRows(lines, FALSE, <<>>, <<>>))
    ELSE PyList(<<>>)

\* The JSON branch (lines 57-70): r is what json.loads gave.  It ends
\* without a return, so with None, for a document that is no list and has
\* none of the three fields.
LoadedResults(text, r) ==
    IF ~r.ok THEN parse_text_results(text)
    ELSE IF r.val.t = "list" THEN r.val
    ELSE IF r.val.t = "dict" /\ DictHas(r.val, <<"results">>) THEN r.val.m[<<"results">>]
    ELSE IF r.val.t = "dict" /\ DictHas(r.val, <<"rows">>) THEN r.val.m[<<"rows">>]
    ELSE IF r.val.t = "dict" /\ DictHas(r.val, <<"error">>) THEN PyList(<<>>)
    ELSE PyNone

\* What the function returns: a list, whatever 'results'/'rows' holds, or None.
parse_db_results(db_results) ==
    CASE db_results.t = "str" ->
            IF \E pattern \in error_patterns :
                   Contains(LowerText(db_results.v), pattern)
            THEN PyList(<<>>)
            ELSE LoadedResults(db_results.v, Loads(db_results.v))
      [] db_results.t = "list" -> db_results
      [] db_results.t = "dict" ->
            IF DictHas(db_results, <<"error">>) THEN PyList(<<>>)
            ELSE IF DictHas(db_results, <<"results">>) THEN db_results.m[<<"results">>]
            ELSE IF DictHas(db_results, <<"rows">>) THEN db_results.m[<<"rows">>]
            ELSE PyList(<<db_results>>)
      [] OTHER -> PyList(<<>>)

\* ------------------------------------------------- Python value helpers
\* repr(x) and f"{x}"
RECURSIVE Repr(_)
Repr(x) ==
    CASE x.t = "str" -> <<"'">> \o x.v \o <<"'">>
      [] x.t = "num" -> <<x.v>>
      [] x.t = "none" -> <<"None">>
      [] x.t = "list" ->
            <<"[">> \o Join([i \in 1..Len(x.v) |-> Repr(x.v[i])], <<",", " ">>) \o <<"]">>
      [] x.t = "dict" ->
            <<"{">>
            \o Join([i \in 1..Len(x.k) |->
                       <<"'">> \o x.k[i] \o <<"'", ":", " ">> \o Repr(x.m[x.k[i]])],
                    <<",", " ">>)
            \o <<"}">>

FStr(x) == IF x.t = "str" THEN x.v ELSE Repr(x)

\* The order of the alphabet's characters (their code points' order).
CodeOrder ==
    <<"\n", " ", "'", ",", "-", "/", "0", "1", "2", "3", "42", ":", "Beta", "Foo",
      "Travel", "Uncategorized", "alpha", "beta", "count", "foo", "gamma", "system",
      "travel", "zeta", "|">>

Rank(c) ==
    IF \E i \in 1..Len(CodeOrder) : CodeOrder[i] = c
    THEN CHOOSE i \in 1..Len(CodeOrder) : CodeOrder[i] = c
    ELSE 0

NumVal(c) ==
    CASE c = "0" -> 0 [] c = "1" -> 1 [] c = "2" -> 2 [] c = "3" -> 3
      [] c = "42" -> 42 [] OTHER -> 0

RECURSIVE TextLess(_, _)
TextLess(a, b) ==
    IF b = <<>> THEN FALSE
    ELSE IF a = <<>> THEN TRUE
    ELSE IF Rank(Head(a)) < Rank(Head(b)) THEN TRUE
    ELSE IF Rank(Head(a)) > Rank(Head(b)) THEN FALSE
    ELSE TextLess(Tail(a), Tail(b))

\* a < b for two values sorted() can compare.
Less(a, b) == IF a.t = "str" THEN TextLess(a.v, b.v) ELSE NumVal(a.v) < NumVal(b.v)

\* sorted() raises TypeError unless the keys compare: two or more keys must all
\* be str or all be numbers (None compares with nothing, nor do dicts).
Sortable(keys) ==
    \/ Len(keys) <= 1
    \/ \A i \in 1..Len(keys) : keys[i].t = "str"
    \/ \A i \in 1..Len(keys) : keys[i].t = "num"

\* sorted(items, key=...) on pairs [key, item]: stable.
RECURSIVE InsertSorted(_, _)
InsertSorted(s, x) ==
    IF s = <<>> THEN <<x>>
    ELSE IF Less(x.key, Head(s).key) THEN <<x>> \o s
    ELSE <<Head(s)>> \o InsertSorted(Tail(s), x)

RECURSIVE SortPairs(_)
SortPairs(ps) ==
    IF ps = <<>> THEN <<>>
    ELSE InsertSorted(SortPairs(SubSeq(ps, 1, Len(ps) - 1)), ps[Len(ps)])

\* The values in the order they first occur.
RECURSIVE Distinct(_, _)
Distinct(xs, seen) ==
    IF xs = <<>> THEN seen
    ELSE Distinct(Tail(xs), IF Head(xs) \in Range(seen) THEN seen ELSE Append(seen, Head(xs)))

\* for x in v: what iteration yields (a number is not iterable: the callers test).
Elems(x) ==
    CASE x.t = "list" -> x.v
      [] x.t = "str" -> [i \in 1..Len(x.v) |-> PyStr(<<x.v[i]>>)]
      [] x.t = "dict" -> [i \in 1..Len(x.k) |-> PyStr(x.k[i])]
      [] OTHER -> <<>>

NotIterable == Raise("TypeError", <<"object is not iterable">>)
NoGet == Raise("AttributeError", <<"object has no attribute 'get'">>)
Unhashable == Raise("TypeError", <<"unhashable type">>)
NotComparable == Raise("TypeError", <<"'<' not supported between instances">>)

\* v[0] of a true value: the first item, or the exception.
Item0(x) ==
    CASE x.t = "list" -> Ret(x.v[1])
      [] x.t = "str" -> Ret(PyStr(<<x.v[1]>>))
      [] x.t = "dict" -> Raise("KeyError", <<"0">>)
      [] OTHER -> Raise("TypeError", <<"object is not subscriptable">>)

\* The first index a loop fails at, given which items it fails on.
FirstBad(bad) == CHOOSE i \in 1..Len(bad) : bad[i] /\ \A j \in 1..(i - 1) : ~bad[j]

\* ------------------------------------------------------------ formatter
Category(prompt) == DictGet(prompt, <<"category">>, PyStr(<<"Uncategorized">>))
Name(prompt) == DictGet(prompt, <<"name">>, PyStr(<<>>))

\* The grouping loop of format_prompt_list fails on an item that is no dict
\* or whose category cannot be a dict key.
BadPrompt(p) == p.t # "dict" \/ Category(p).t \in {"list", "dict"}

\* by_category[c], sorted by name, as pairs [key, item].
GroupOf(items, c) ==
    LET members == SelectSeq(items, LAMBDA p : Category(p) = c)
    IN  [i \in 1..Len(members) |-> [key |-> Name(members[i]), item |-> members[i]]]

PromptLine(prompt) ==
    <<"- **">> \o FStr(DictGet(prompt, <<"name">>, PyStr(<<"Unnamed">>)))
    \o <<"**: ">> \o FStr(DictGet(prompt, <<"description">>, PyStr(<<"No description">>)))
    \o <<"\n">>

GroupSection(items, c) ==
    LET sorted == SortPairs(GroupOf(items, c)) IN
    <<"## ">> \o FStr(c) \o <<"\n\n">>
    \o Join([i \in 1..Len(sorted) |-> PromptLine(sorted[i].item)], <<>>)
    \o <<"\n">>

format_prompt_list(prompts) ==
    IF ~PyTruthy(prompts) THEN Ret(<<"No prompts found.">>)
    ELSE IF prompts.t = "num" THEN NotIterable
    ELSE LET items == Elems(prompts) IN
         IF \E i \in 1..Len(items) : BadPrompt(items[i])
         THEN IF items[FirstBad([i \in 1..Len(items) |-> BadPrompt(items[i])])].t # "dict" THEN NoGet ELSE Unhashable
         ELSE LET cats == Distinct([i \in 1..Len(items) |-> Category(items[i])], <<>>)
                  order == SortPairs([i \in 1..Len(cats) |-> [key |-> cats[i], item |-> cats[i]]])
              IN  IF ~Sortable(cats) THEN NotComparable
                  ELSE IF \E i \in 1..Len(cats) :
                              ~Sortable([j \in 1..Len(GroupOf(items, cats[i])) |->
                                            GroupOf(items, cats[i])[j].key])
                  THEN NotComparable
                  ELSE Ret(<<"# Available Prompts\n\n">>
                           \o Join([i \in 1..Len(order) |-> GroupSection(items, order[i].item)],
                                   <<>>))

metadata_fields == << <<"created_at">>, <<"updated_at">>, <<"version">>, <<"author">> >>

\* ', '.join(tags) needs an iterable of str.
TagsJoinable(tags) ==
    tags.t # "num" /\ \A i \in 1..Len(Elems(tags)) : Elems(tags)[i].t = "str"

format_prompt_detail(prompt) ==
    IF prompt.t # "dict" THEN NoGet
    ELSE LET name == DictGet(prompt, <<"name">>, PyStr(<<"Unnamed Prompt">>))
             desc == DictGet(prompt, <<"description">>, PyStr(<<"No description">>))
             content == DictGet(prompt, <<"content">>,
                                DictGet(prompt, <<"prompt">>, PyStr(<<"No content">>)))
             category == Category(prompt)
             tags == DictGet(prompt, <<"tags">>, PyList(<<>>))
             present == SelectSeq(metadata_fields, LAMBDA f : DictHas(prompt, f))
             metadata_output == [i \in 1..Len(present) |->
                                   present[i] \o <<": ">> \o FStr(prompt.m[present[i]])]
         IN  IF PyTruthy(tags) /\ tags.t # "str" /\ ~TagsJoinable(tags)
             THEN Raise("TypeError", <<"sequence item: expected str instance">>)
             ELSE Ret(<<"# ">> \o FStr(name) \o <<"\n\n">>
                      \o <<"**Category:** ">> \o FStr(category) \o <<"\n">>
                      \o <<"**Description:** ">> \o FStr(desc) \o <<"\n">>
                      \o (IF PyTruthy(tags)
                          THEN <<"**Tags:** ">>
                               \o (IF tags.t = "str" THEN tags.v
                                   ELSE Join([i \in 1..Len(Elems(tags)) |-> Elems(tags)[i].v],
                                             <<", ">>))
                               \o <<"\n">>
                          ELSE <<>>)
                      \o <<"\n## Content\n\n<fence>\n">> \o FStr(content) \o <<"\n<fence>\n">>
                      \o (IF metadata_output # <<>>
                          THEN <<"\n## Metadata\n\n">> \o Join(metadata_output, <<"\n">>)
                          ELSE <<>>))

\* ------------------------------------------------- result post-processing
ReceivedLimit == 200     \* result[:200], content[:200]
CombinedLimit == 500     \* combined[:500]

prompt_error_patterns ==
    { <<"failed", " ", "to", " ", "connect">>, <<"connection", " ", "error">>,
      <<"database", " ", "error">>, <<"server", " ", "error">>, <<"timeout">>,
      <<"not", " ", "found", ":", " ", "d1-database">> }

\* The first item of a true db_results, rendered by format_prompt_detail.
DetailOfFirst(db_results) ==
    LET first == Item0(db_results) IN
    IF first.kind = "raise" THEN first ELSE format_prompt_detail(first.val)

CategoryListing(db_results) ==
    LET rows == Elems(db_results) IN
    IF \E i \in 1..Len(rows) : rows[i].t # "dict" THEN NoGet
    ELSE Ret(<<"# Prompt Categories\n\n">>
             \o Join([i \in 1..Len(rows) |->
                        <<"- **">>
                        \o FStr(DictGet(rows[i], <<"category">>, PyStr(<<"Unknown">>)))
                        \o <<"**: ">> \o FStr(DictGet(rows[i], <<"count">>, PyNum("0")))
                        \o <<" prompts\n">>], <<>>))

\* The try block of _format_prompt_result: what it returns or raises.
PromptResultBody(subcommand, result) ==
    IF \E error \in prompt_error_patterns : Contains(LowerText(result), error)
    THEN Ret(<<"X Database Error: ">> \o result
             \o <<"\n\nPlease ensure the D1 database server is running and accessible. ...">>)
    ELSE LET db_results == parse_db_results(PyStr(result)) IN
         IF ~PyTruthy(db_results) /\ Contains(LowerText(result), <<"error">>)
         THEN Ret(<<"X Database query failed: ">> \o result)
         ELSE CASE subcommand \in {<<"list">>, <<"dashboard">>} ->
                     IF ~PyTruthy(db_results)
                     THEN Ret(<<"No prompts found in the database. ...">>)
                     ELSE format_prompt_list(db_results)
                [] subcommand = <<"view">> ->
                     IF PyTruthy(db_results) THEN DetailOfFirst(db_results)
                     ELSE Ret(<<"Prompt not found. Please check the prompt name and try again.">>)
                [] subcommand = <<"search">> ->
                     IF PyTruthy(db_results) THEN format_prompt_list(db_results)
                     ELSE Ret(<<"No prompts found matching your search criteria.">>)
                [] subcommand = <<"category">> ->
                     IF ~PyTruthy(db_results)
                     THEN Ret(<<"No prompts found in this category.">>)
                     ELSE IF db_results.t = "num"
                     THEN Raise("TypeError", <<"object has no len()">>)
                     ELSE LET first == Item0(db_results) IN
                          IF first.kind = "raise" THEN first
                          ELSE IF Contains(FStr(first.val), <<"count">>)
                          THEN CategoryListing(db_results)
                          ELSE format_prompt_list(db_results)
                [] subcommand = <<"edit">> ->
                     IF PyTruthy(db_results)
                     THEN LET d == DetailOfFirst(db_results) IN
                          IF d.kind = "raise" THEN d
                          ELSE Ret(d.val \o <<"\n\n---\n\nTo edit this prompt, provide the updated content.">>)
                     ELSE Ret(<<"Prompt not found. Please check the prompt name and try again.">>)
                [] subcommand = <<"delete">> ->
                     IF Contains(LowerText(result), <<"error">>)
                     THEN Ret(<<"X Failed to delete prompt: ">> \o result)
                     ELSE Ret(<<"OK Prompt deleted successfully.">>)
                [] OTHER -> Ret(result)

\* except Exception as e (lines 303-305)
PromptResultCaught(r, result) ==
    IF r.kind = "raise"
    THEN <<"X Error processing command result: ">> \o r.msg
         \o <<"\n\nRaw result: ">> \o result
    ELSE r.val

format_prompt_result(subcommand, result) ==
    PromptResultCaught(PromptResultBody(subcommand, result), result)

\* db_results and db_results[0].get('content'): the content, None when absent.
FirstContent(db_results) ==
    IF ~PyTruthy(db_results) THEN Ret(PyNone)
    ELSE LET first == Item0(db_results) IN
         IF first.kind = "raise" THEN first
         ELSE IF first.val.t # "dict" THEN NoGet
         ELSE Ret(DictGet(first.val, <<"content">>, PyNone))

\* prompt.get('content', '')[:200]
Sliceable(x) == x.t \in {"str", "list"}
SliceTo(x, n) == [x EXCEPT !.v = Take(x.v, n)]

\* The try block of _format_travel_result.
TravelResultBody(subcommand, result) ==
    CASE subcommand = <<"default">> ->
            IF Contains(LowerText(result), <<"pricing">>)
               \/ Contains(LowerText(result), <<"tier">>)
            THEN Ret(<<"! **Unexpected Response from Prompt Server** ... **Received:**\n">>
                     \o Take(result, ReceivedLimit) \o <<"...">>)
            ELSE Ret(<<"OK **Travel Assistant Initialized**\n\n">> \o result)
      [] subcommand = <<"init">> ->
            LET c == FirstContent(parse_db_results(PyStr(result))) IN
            IF c.kind = "raise" THEN c
            ELSE IF PyTruthy(c.val)
            THEN Ret(<<"OK **Travel Assistant Loaded from Database**\n\n">> \o FStr(c.val))
            ELSE Ret(<<"X No travel assistant prompt found in database. ...">>)
      [] subcommand = <<"full_init">> ->
            LET db_results == parse_db_results(PyStr(result))
                prompts == Elems(db_results)
                Content(p) == DictGet(p, <<"content">>, PyStr(<<>>))
            IN  IF ~PyTruthy(db_results) THEN Ret(<<"X No travel prompts found in database.">>)
                ELSE IF db_results.t = "num" THEN NotIterable
                ELSE IF \E i \in 1..Len(prompts) :
                            prompts[i].t # "dict" \/ ~Sliceable(Content(prompts[i]))
                THEN IF prompts[FirstBad([i \in 1..Len(prompts) |->
                                   prompts[i].t # "dict"
                                   \/ ~Sliceable(Content(prompts[i]))])].t # "dict"
                     THEN NoGet
                     ELSE Raise("TypeError", <<"object is not subscriptable">>)
                ELSE Ret(<<"OK **Travel Assistant Components Loaded**\n\n">>
                         \o Join([i \in 1..Len(prompts) |->
                                    <<"**">>
                                    \o FStr(DictGet(prompts[i], <<"name">>, PyStr(<<"Unknown">>)))
                                    \o <<"**\n">>
                                    \o FStr(SliceTo(Content(prompts[i]), ReceivedLimit))
                                    \o <<"...\n\n">>], <<>>))
      [] subcommand = <<"load_specific">> ->
            LET c == FirstContent(parse_db_results(PyStr(result))) IN
            IF c.kind = "raise" THEN c
            ELSE IF PyTruthy(c.val)
            THEN Ret(<<"OK **Prompt Loaded Successfully**\n\n">> \o FStr(c.val))
            ELSE Ret(<<"X Prompt not found. Check the name and try again.">>)
      [] subcommand = <<"custom_init">> ->
            LET db_results == parse_db_results(PyStr(result))
                prompts == Elems(db_results)
                Content(p) == DictGet(p, <<"content">>, PyStr(<<>>))
            IN  IF ~PyTruthy(db_results)
                THEN Ret(<<"X No matching components found in database.">>)
                ELSE IF db_results.t = "num" THEN NotIterable
                ELSE IF \E i \in 1..Len(prompts) : prompts[i].t # "dict" THEN NoGet
                ELSE IF \E i \in 1..Len(prompts) : Content(prompts[i]).t # "str"
                THEN Raise("TypeError", <<"sequence item: expected str instance">>)
                ELSE Ret(<<"OK **Custom Travel Assistant Initialized**\n\n**Loaded Components:**\n">>
                         \o Join([i \in 1..Len(prompts) |->
                                    <<"- ">>
                                    \o FStr(DictGet(prompts[i], <<"name">>, PyStr(<<"Unknown">>)))
                                    \o <<"\n">>], <<>>)
                         \o <<"\n**Combined Instructions:**\n">>
                         \o Take(Join([i \in 1..Len(prompts) |-> Content(prompts[i]).v],
                                      <<"\n\n---\n\n">>), CombinedLimit)
                         \o <<"...">>)
      [] OTHER -> Ret(result)

\* except Exception as e (lines 377-379)
TravelResultCaught(r) ==
    IF r.kind = "raise"
    THEN <<"X Error processing travel initialization: ">> \o r.msg
    ELSE r.val

format_travel_result(subcommand, result) ==
    TravelResultCaught(TravelResultBody(subcommand, result))

\* command_type, subcommand = format_info.split(":") and the dispatch on it
\* (lines 231-238); the entry is already popped.
FormatAs(parts, result) ==
    IF Len(parts) # 2
    THEN Raise("ValueError",
               IF Len(parts) < 2
               THEN <<"not enough values to unpack (expected 2, got 1)">>
               ELSE <<"too many values to unpack (expected 2)">>)
    ELSE CASE parts[1] = <<"prompts">> -> Ret(format_prompt_result(parts[2], result))
           [] parts[1] = <<"travel">> -> Ret(format_travel_result(parts[2], result))
           [] OTHER -> Ret(result)

\* A variant of Popped that reads the entry and leaves it in place; C4 tells
\* the two apart.
Popped_kept(pend, command_text) == pend

\* A variant of Popped that drops every entry with the one asked for; C19 tells
\* the two apart.
Popped_all(pend, command_text) == <<>>

\* pending_format_requests without command_text
Popped(pend, command_text) == [x \in DOMAIN pend \ {command_text} |-> pend[x]]

\* A variant of format_command_result that formats a result nobody asked to
\* format as a prompt list; C5 tells the two apart.
format_command_result_default(pend, command_text, result) ==
    IF command_text \notin DOMAIN pend
    THEN [pend |-> pend, out |-> Ret(format_prompt_result(<<"list">>, result))]
    ELSE [pend |-> Popped(pend, command_text),
          out |-> FormatAs(SplitOn(pend[command_text], ":"), result)]

\* A variant of format_command_result that consumes the entry and hands the
\* result back as it came; C18 tells the two apart.
format_command_result_unformatted(pend, command_text, result) ==
    IF command_text \notin DOMAIN pend
    THEN [pend |-> pend, out |-> Ret(result)]
    ELSE [pend |-> Popped(pend, command_text), out |-> Ret(result)]

format_command_result(pend, command_text, result) ==
    IF command_text \notin DOMAIN pend
    THEN [pend |-> pend, out |-> Ret(result)]
    ELSE [pend |-> Popped(pend, command_text),
          out |-> FormatAs(SplitOn(pend[command_text], ":"), result)]

\* ------------------------------------------------------- dashboard view
DescLimit == 50     \* [:50] and > 50 of create_prompt_editor_view

\* str(n) of a count
NumText(n) == ToString(n)

\* desc += "..."
Extended(desc) ==
    IF desc.t = "str" THEN PyStr(desc.v \o <<"...">>)
    ELSE PyList(desc.v \o <<PyStr(<<".">>), PyStr(<<".">>), PyStr(<<".">>)>>)

\* A variant of Shortened that already cuts a description of DescLimit
\* characters; C16 tells the two apart.
Shortened_early(d, e) ==
    IF Len(e.v) >= DescLimit THEN Extended(SliceTo(d, DescLimit)) ELSE SliceTo(d, DescLimit)

\* desc of lines 201-203: d is prompt.get('description', 'No description'),
\* e is prompt.get('description', '').
Shortened(d, e) ==
    IF Len(e.v) > DescLimit THEN Extended(SliceTo(d, DescLimit)) ELSE SliceTo(d, DescLimit)

DescOf(prompt) ==
    Shortened(DictGet(prompt, <<"description">>, PyStr(<<"No description">>)),
              DictGet(prompt, <<"description">>, PyStr(<<>>)))

BadDescription(prompt) ==
    ~Sliceable(DictGet(prompt, <<"description">>, PyStr(<<"No description">>)))

\* Lines 205-206, name being the text of prompt.get('name', 'Unnamed').
TableRow(c, name, desc) ==
    <<"| ">> \o FStr(c) \o <<" | ">> \o name \o <<" | ">> \o FStr(desc)
    \o <<" | ", "[View](/prompts view ">> \o name \o <<")", " | ",
         "[Edit](/prompts edit ">> \o name \o <<")", " |\n">>

DashRow(c, prompt) ==
    TableRow(c, FStr(DictGet(prompt, <<"name">>, PyStr(<<"Unnamed">>))), DescOf(prompt))

\* The rows of one category (lines 199-206), sorted being its prompts by name;
\* or the exception the loop stops with.
GroupRows(c, members, sorted) ==
    IF ~Sortable([j \in 1..Len(members) |-> members[j].key]) THEN NotComparable
    ELSE IF \E j \in 1..Len(sorted) : BadDescription(sorted[j].item)
    THEN Raise("TypeError", <<"object is not subscriptable">>)
    ELSE Ret(Join([j \in 1..Len(sorted) |-> DashRow(c, sorted[j].item)], <<>>))

DashGroup(items, c) == GroupRows(c, GroupOf(items, c), SortPairs(GroupOf(items, c)))

\* Line 214
StatLine(items, c) ==
    <<"  - ">> \o FStr(c) \o <<": ", NumText(Len(GroupOf(items, c))), " prompts\n">>

DashboardHead ==
    <<"# Prompt Management Dashboard\n\n",
      "This view shows all prompts from the D1 database. ",
      "You can use the slash commands to manage them:\n\n",
      "- <tick>/prompts list<tick> - List all prompts\n",
      "- <tick>/prompts view <name><tick> - View a specific prompt\n",
      "- <tick>/prompts edit <name><tick> - Edit a prompt\n",
      "- <tick>/prompts create <name><tick> - Create a new prompt\n",
      "- <tick>/prompts delete <name><tick> - Delete a prompt\n\n",
      "---\n\n",
      "## All Prompts\n\n",
      "| Category | Name | Description | Actions |\n",
      "|----------|------|-------------|----------|\n">>

\* Lines 194-216, order being the categories sorted and rows the outcome of
\* each one's loop.
Dashboard(items, order, rows) ==
    IF \E i \in 1..Len(rows) : rows[i].kind = "raise"
    THEN rows[FirstBad([i \in 1..Len(rows) |-> rows[i].kind = "raise"])]
    ELSE Ret(DashboardHead
             \o Join([i \in 1..Len(rows) |-> rows[i].val], <<>>)
             \o <<"\n---\n\n", "## Quick Stats\n\n",
                  "- Total prompts: ", NumText(Len(items)), "\n",
                  "- Categories: ", NumText(Len(order)), "\n">>
             \o Join([i \in 1..Len(order) |-> StatLine(items, order[i].item)], <<>>))

Grouped(items, cats, order) ==
    IF ~Sortable(cats) THEN NotComparable
    ELSE Dashboard(items, order, [i \in 1..Len(order) |-> DashGroup(items, order[i].item)])

GroupedBy(items, cats) ==
    Grouped(items, cats, SortPairs([i \in 1..Len(cats) |-> [key |-> cats[i], item |-> cats[i]]]))

create_prompt_editor_view(prompts) ==
    IF prompts.t \in {"num", "none"} THEN NotIterable
    ELSE IF \E i \in 1..Len(Elems(prompts)) : BadPrompt(Elems(prompts)[i])
    THEN IF Elems(prompts)[FirstBad([i \in 1..Len(Elems(prompts)) |->
                                        BadPrompt(Elems(prompts)[i])])].t # "dict"
         THEN NoGet ELSE Unhashable
    ELSE GroupedBy(Elems(prompts),
                   Distinct([i \in 1..Len(Elems(prompts)) |-> Category(Elems(prompts)[i])],
                            <<>>))

\* ---------------------------------------------------------------- state
VARIABLES
    commands,                   \* self.commands
    pending_format_requests,    \* self.pending_format_requests
    op,                         \* the last call made
    arg,                        \* its input_text / command_text / db_results
    raw,                        \* the result text handed to format_command_result
                                \* (for execute_command: the handler's fault)
    ret,                        \* what the call returned or raised
    popped,                     \* the last call was a format_command_result that
                                \* found an entry for its key
    again,                      \* ... and it repeats the key of the call before it,
                                \* a format_command_result that found an entry
    reissue,                    \* 3 after an execute_command that wrote the entry
                                \* of its line over a pending one, 2 and 1 after
                                \* the first and second result fed back for that
                                \* line directly afterwards, 0 otherwise
    client,                     \* MCPBridge: self.client
    session,                    \* MCPBridge: self.session
    initialized                 \* an initialize of the bridge has returned

bridge == <<client, session, initialized>>

vars == <<commands, pending_format_requests, op, arg, raw, ret, popped, again, reissue,
          client, session, initialized>>


\* SlashCommandHandler.__init__
Init ==
    /\ commands = register_default_commands
    /\ pending_format_requests = <<>>
    /\ op = "init"
    /\ arg = <<>>
    /\ raw = <<>>
    /\ ret = Ret(<<>>)
    /\ popped = FALSE
    /\ again = FALSE
    /\ reissue = 0
    /\ client = NoneT
    /\ session = NoneT
    /\ initialized = FALSE

\* --------------------------------------------------------------- inputs
Word == "flights"

\* "/<cmd>", "/<cmd> <sub>", "/<cmd> <sub> flights ... flights" (n times)
Line(cmd, toks) == <<"/", cmd>> \o Join([i \in 1..Len(toks) |-> <<" ", toks[i]>>], <<>>)
WithArgs(sub, n) == <<sub>> \o [i \in 1..n |-> Word]

TravelLines ==
    {Line(c, <<>>) : c \in {"travel", "t"}}
    \cup {Line(c, WithArgs(s, n)) : c \in {"travel", "t"}, s \in {"check", "load"}, n \in 0..1}
PromptsLines ==
    {Line(c, <<>>) : c \in {"prompts", "P"}}
    \cup {Line(c, WithArgs(s, n)) : c \in {"prompts", "P"}, s \in {"view", "create"}, n \in 0..1}
\* /cp followed by up to MaxArgs + 3 tokens, each token another word
TokenNames == <<"alpha", "beta", "gamma", "zeta", "foo", "count">>
Token(i) == TokenNames[((i - 1) % Len(TokenNames)) + 1]
CreatePromptLines ==
    {Line("cp", [i \in 1..n |-> Token(i)]) : n \in 0..(MaxArgs + 3)}
OtherLines ==
    { Line("FOO", <<>>), Line("help", <<>>), <<" ", "/", "travel">>, <<"/">>, <<Word>> }

Lines == TravelLines \cup PromptsLines \cup CreatePromptLines \cup OtherLines

Faults == {NoFault, <<"boom">>}

RowAlpha ==
    DictPut(DictPut(EmptyDict, <<"name">>, PyStr(<<"alpha">>)), <<"content">>, PyStr(<<"foo">>))

\* The result texts the host feeds back.
RawResults ==
    { Dumps(PyList(<<RowAlpha>>)), <<"42">>, <<"[", "1", "]">>, <<"Timeout">> }

\* -------------------------------------------------------------- actions
\* The call `name` on `a` (and `w`) left r.pend and gave r.out.
\* A variant of Called in which a call binds the text it was given to a
\* command of the registry; C20 tells the two apart.
Called_rebinding(name, a, w, r) ==
    /\ Cardinality(DOMAIN r.pend) <= MaxPending
    /\ pending_format_requests' = r.pend
    /\ op' = name
    /\ arg' = a
    /\ raw' = w
    /\ ret' = r.out
    /\ commands' = DictPut(commands, a, commands.m[commands.k[1]])
    /\ UNCHANGED bridge

Called(name, a, w, r) ==
    /\ Cardinality(DOMAIN r.pend) <= MaxPending
    /\ pending_format_requests' = r.pend
    /\ op' = name
    /\ arg' = a
    /\ raw' = w
    /\ ret' = r.out
    /\ UNCHANGED commands
    /\ UNCHANGED bridge

\* What an execute_command makes of reissue: 3 when the call writes the entry
\* of its own line over one that is pending.
Writes(input_text, fault) ==
    input_text \in DOMAIN execute_command(commands, <<>>, input_text, fault).pend

Reissued(input_text, fault) ==
    IF input_text \in DOMAIN pending_format_requests /\ Writes(input_text, fault)
    THEN 3 ELSE 0

\* What a format_command_result makes of it: one more result of that line has
\* come, as long as the results follow the call directly.
Resolved(command_text) ==
    IF command_text = arg /\ reissue > 1 THEN reissue - 1 ELSE 0

ExecuteCommand(input_text, fault) ==
    /\ Called("execute_command", input_text, fault,
              execute_command(commands, pending_format_requests, input_text, fault))
    /\ popped' = FALSE
    /\ again' = FALSE
    /\ reissue' = Reissued(input_text, fault)

FormatCommandResult(command_text, result) ==
    /\ Called("format_command_result", command_text, result,
              format_command_result(pending_format_requests, command_text, result))
    /\ popped' = (command_text \in DOMAIN pending_format_requests)
    /\ again' = (op = "format_command_result" /\ arg = command_text /\ popped)
    /\ reissue' = Resolved(command_text)

ShouldFormatResult(command_text) ==
    /\ Called("should_format_result", command_text, <<>>,
              [pend |-> pending_format_requests,
               out |-> Ret(should_format_result(pending_format_requests, command_text))])
    /\ popped' = FALSE
    /\ again' = FALSE
    /\ reissue' = 0

\* A call that leaves the handler's state alone.
Pure(name, a, value) ==
    /\ Called(name, a, <<>>, [pend |-> pending_format_requests, out |-> Ret(value)])
    /\ popped' = FALSE
    /\ again' = FALSE
    /\ reissue' = 0

ParseCommand(input_text) == Pure("parse_command", input_text, parse_command(input_text))

IsSlashCommand(input_text) ==
    Pure("is_slash_command", input_text, is_slash_command(input_text))

\* The host asks about, parses, and feeds results back for, the line it last
\* sent or any key that is pending.
CommandTexts == {arg} \cup DOMAIN pending_format_requests

Next ==
    \/ \E input_text \in Lines, fault \in Faults : ExecuteCommand(input_text, fault)
    \/ \E command_text \in CommandTexts, result \in RawResults :
          FormatCommandResult(command_text, result)
    \/ \E command_text \in CommandTexts : ShouldFormatResult(command_text)
    \/ \E input_text \in CommandTexts : ParseCommand(input_text)
    \/ \E input_text \in CommandTexts : IsSlashCommand(input_text)

Spec == Init /\ [][Next]_vars

\* ------------------------------------------- parse_command on its own
CmdAlphabet == {"/", " ", "travel", "T"}
RawLines == UNION {[1..n -> CmdAlphabet] : n \in 0..MaxLen}

NextCmd ==
    \/ \E input_text \in RawLines : ParseCommand(input_text)
    \/ \E input_text \in RawLines : IsSlashCommand(input_text)

SpecCmd == Init /\ [][NextCmd]_vars

\* --------------------------------------- parse_db_results on its own
MaxLines == 3       \* most lines of a generated result text

Absent == [t |-> "absent"]
Field(d, key, v) == IF v = Absent THEN d ELSE DictPut(d, key, v)

RowBeta == DictPut(EmptyDict, <<"name">>, PyStr(<<"beta">>))
RowTimeout == DictPut(EmptyDict, <<"name">>, PyStr(<<"Timeout">>))

\* The mappings a query result can be: any of error, results, rows, name.
Mappings ==
    { Field(Field(Field(Field(EmptyDict, <<"error">>, e), <<"results">>, r),
                  <<"rows">>, w), <<"name">>, n) :
        e \in {Absent, PyStr(<<"boom">>)},
        r \in {Absent, PyList(<<RowAlpha>>), PyNum("3")},
        w \in {Absent, PyList(<<RowBeta>>)},
        n \in {Absent, PyStr(<<"alpha">>)} }

Structured ==
    Mappings
    \cup {PyList(<<>>), PyList(<<RowAlpha>>), PyList(<<RowAlpha, RowBeta>>),
          PyList(<<RowTimeout>>)}
    \cup {PyNum("42"), PyNone}

\* The lines of a text result: header, rows, separators, prose, an error.
LineShapes ==
    { <<"name", " ", "|", " ", "description">>,
      <<"Foo", " ", "|", " ", "Bar">>,
      <<"Foo", " ", "|", " ", "Bar", " ", "|", " ", "Baz">>,
      <<"|", "-", "|", "-", "|">>,
      <<"-", "|", "-">>,
      <<"foo">>,
      <<"Timeout", " ", "|", " ", "Bar">>,
      <<"Connection", " ", "Failed", ":", " ", "timeout">> }

TextResults ==
    UNION {{Join(ls, <<"\n">>) : ls \in [1..n -> LineShapes]} : n \in 1..MaxLines}

DbInputs ==
    Structured
    \cup {PyStr(Dumps(x)) : x \in Structured}
    \cup {PyStr(t) : t \in TextResults}
    \cup {PyStr(<<>>)}

ParseDbResults(db_results) ==
    Pure("parse_db_results", db_results, parse_db_results(db_results))

NextDb == \E db_results \in DbInputs : ParseDbResults(db_results)

SpecDb == Init /\ [][NextDb]_vars

\* =============================================================== properties
\* The command of a line, as parse_command yields it, and whether it is
\* registered.
CommandOf(input_text) == parse_command(input_text).command_name
Registered(input_text) == DictHas(commands, CommandOf(input_text))

\* C1: whenever execute_command returns a text that starts with the directive
\* marker use_tool_from_server, the raw input line it was given is a key of
\* pending_format_requests immediately afterwards.
C1_DirectiveIsPending ==
    (op = "execute_command" /\ ret.kind = "return" /\ StartsWith(ret.val, Directive))
        => should_format_result(pending_format_requests, arg)

\* C2: is_slash_command(input) is true exactly when parse_command(input)
\* yields a command, for every input, among them a line with leading
\* whitespace and the bare prefix.
C2_IsCommandIffParses ==
    /\ op = "is_slash_command" => (ret.val <=> (CommandOf(arg) # NoneT))
    /\ op = "parse_command" => ((ret.val.command_name # NoneT) <=> is_slash_command(arg))

\* C3: format_command_result never raises, whatever the key and the raw
\* result.
C3_ResolveNeverRaises ==
    op = "format_command_result" => ret.kind = "return"

\* C4: a format_command_result that finds an entry for its key leaves no entry
\* for that key, and the same call made again straight after it, with no
\* execute_command in between, returns its raw result unchanged.
C4_ConsumedOnce ==
    /\ (op = "format_command_result" /\ popped)
           => arg \notin DOMAIN pending_format_requests
    /\ (op = "format_command_result" /\ again)
           => (~popped /\ ret = Ret(raw))

\* The second of two format_command_result calls on a key that execute_command
\* had marked has returned its raw result.
C4_SecondResolve ==
    /\ op = "format_command_result"
    /\ again
    /\ raw # <<>>
    /\ ret = Ret(raw)

\* C5: a format_command_result on a key with no entry returns the raw result
\* unchanged and leaves pending_format_requests as it was.
C5_PassThrough ==
    [][ (op' = "format_command_result" /\ arg' \notin DOMAIN pending_format_requests)
            => (ret' = Ret(raw') /\ pending_format_requests' = pending_format_requests)
      ]_vars

\* A result came back untouched for a key that was not pending while other
\* keys were.
C5_PassedThrough ==
    /\ op = "format_command_result"
    /\ ~popped
    /\ pending_format_requests # <<>>
    /\ raw # <<>>
    /\ ret = Ret(raw)

\* C6: an execute_command whose reply is not a directive (a direct reply, as
\* for /prompts create <name>) adds no entry to pending_format_requests.
C6_DirectReplyAddsNothing ==
    [][ (op' = "execute_command"
         /\ ~(ret'.kind = "return" /\ StartsWith(ret'.val, Directive)))
            => pending_format_requests' = pending_format_requests
      ]_vars

\* C7: for a line whose command is not registered, execute_command returns a
\* message that contains that command (case-folded, as parse_command yields
\* it) and points to /help; nothing is raised.
C7_UnknownCommandNamed ==
    (op = "execute_command" /\ CommandOf(arg) # NoneT /\ ~Registered(arg))
        => /\ ret.kind = "return"
           /\ Contains(ret.val, CommandOf(arg))
           /\ Contains(ret.val, <<"/", "help">>)

\* /FOO was answered with a message naming foo.
C7_UnknownAnswered ==
    /\ op = "execute_command"
    /\ arg = <<"/", "FOO">>
    /\ ret.kind = "return"
    /\ Contains(ret.val, <<"Unknown command: ", "/", "foo">>)

\* C8: when the handler of a registered command raises an exception with
\* message m, execute_command returns 'Error executing command: ' followed by
\* m; nothing is raised out of execute_command for a registered command.
C8_HandlerFaultReported ==
    (op = "execute_command" /\ Registered(arg))
        => /\ ret.kind = "return"
           /\ raw # NoFault => ret.val = <<"Error executing command: ">> \o raw

\* A registered handler raised and the error text came back.
C8_FaultReported ==
    /\ op = "execute_command"
    /\ Registered(arg)
    /\ raw = <<"boom">>
    /\ ret = Ret(<<"Error executing command: ", "boom">>)

\* C9: parse_db_results returns a list for every input, among them a JSON text
\* that holds a bare scalar or a mapping without error, results or rows.
C9_AlwaysAList ==
    op = "parse_db_results" => (ret.kind = "return" /\ ret.val.t = "list")

\* The mapping a db_results holds: itself, or the one its JSON text decodes
\* to; PyNone when it holds none.
DecodedMapping(r) == IF r.ok /\ r.val.t = "dict" THEN r.val ELSE PyNone
MappingOf(db_results) ==
    CASE db_results.t = "dict" -> db_results
      [] db_results.t = "str" -> DecodedMapping(Loads(db_results.v))
      [] OTHER -> PyNone

\* The one rule the specification gives for a mapping.
ListField(m, key) == DictHas(m, key) /\ m.m[key].t = "list"
MappingRule(m) ==
    IF DictHas(m, <<"error">>) THEN PyList(<<>>)
    ELSE IF ListField(m, <<"results">>) THEN m.m[<<"results">>]
    ELSE IF ListField(m, <<"rows">>) THEN m.m[<<"rows">>]
    ELSE PyList(<<m>>)
FollowsRule(m, value) == m # PyNone => value = MappingRule(m)

\* C10: a mapping, given as a structure or as JSON text, is read by one rule:
\* an error field gives the empty list; else a results or rows field holding
\* a list gives that list; else the mapping alone in a list.
C10_OneRuleForMappings ==
    op = "parse_db_results" => FollowsRule(MappingOf(arg), ret.val)

\* The text holds, at some place and in some letter case, one of the error
\* substrings.
SpellsAt(s, i, pattern) ==
    /\ i + Len(pattern) - 1 <= Len(s)
    /\ \A j \in 1..Len(pattern) : Lower(s[i + j - 1]) = pattern[j]
HasErrorText(s) == \E pattern \in error_patterns : \E i \in 1..Len(s) : SpellsAt(s, i, pattern)

\* C11: for a text that holds one of the error substrings in any letter case,
\* parse_db_results returns the empty list and raises nothing, also when the
\* text is a JSON document or a pipe table.
C11_ErrorTextGivesEmpty ==
    (op = "parse_db_results" /\ arg.t = "str" /\ HasErrorText(arg.v))
        => ret = Ret(PyList(<<>>))

\* A JSON document that decodes to a list with one record, and spells Timeout
\* with a capital, was read as the empty list.
C11_ErrorInsideJson ==
    /\ op = "parse_db_results"
    /\ arg = PyStr(Dumps(PyList(<<RowTimeout>>)))
    /\ Loads(arg.v).ok
    /\ Loads(arg.v).val = PyList(<<RowTimeout>>)
    /\ ret = Ret(PyList(<<>>))

\* The lines of a text result, and whether one is a separator row: dashes and
\* pipes only (and blanks), with a dash.
TextLines(text) == SplitOn(Strip(text), "\n")
IsSeparator(line) ==
    /\ \A i \in 1..Len(line) : line[i] \in {"-", "|", " "}
    /\ \E i \in 1..Len(line) : line[i] = "-"
IsTableLine(line) == Contains(line, <<"|">>) /\ ~IsSeparator(line)

\* The record of a row under a header: header name i goes to cell i (a name
\* that occurs twice keeps its last cell).
LastOf(headers, h) == CHOOSE i \in 1..Len(headers) :
                          headers[i] = h /\ \A j \in (i + 1)..Len(headers) : headers[j] # h
RecordOf(headers, values) ==
    PyDict(Distinct(headers, <<>>),
           [h \in Range(headers) |-> PyStr(values[LastOf(headers, h)])])
RecordsOf(headers, rows) ==
    [i \in 1..Len(rows) |-> RecordOf(headers, Cells(rows[i]))]
SameArity(rows, n) == SelectSeq(rows, LAMBDA l : Len(Cells(l)) = n)

\* The table the specification describes: the header is the first line with
\* a pipe that is no separator row, wherever it stands; the records are the
\* later such lines with as many cells.
DescribedRecords(rows) ==
    IF rows = <<>> THEN <<>>
    ELSE RecordsOf(Cells(Head(rows)), SameArity(Tail(rows), Len(Cells(Head(rows)))))
DescribedTable(text) ==
    PyList(DescribedRecords(SelectSeq(TextLines(text), IsTableLine)))

\* A text that is neither an error text nor a JSON document.
PlainText(db_results) ==
    /\ db_results.t = "str"
    /\ db_results.v # <<>>
    /\ ~HasErrorText(db_results.v)
    /\ ~Loads(db_results.v).ok

\* C12: in a text that is no JSON, the header is the first line with a pipe
\* that is not a separator row, wherever it stands, and a separator row
\* (also one written |-|-|) is neither the header nor a record.
C12_HeaderIsFirstTableLine ==
    (op = "parse_db_results" /\ PlainText(arg)) => ret.val = DescribedTable(arg.v)

\* The lines the code takes for table rows: a pipe, and no dash in front.
IsRowLine(line) == Contains(line, <<"|">>) /\ ~StartsWith(Strip(line), <<"-">>)
RowLines(text) == SelectSeq(TextLines(text), IsRowLine)

\* C13: under the header the parser took, a row becomes a record exactly when
\* it has as many non-empty trimmed cells as the header has names, the record
\* mapping name i to cell i; a longer or shorter row is dropped, not cut, and
\* the other rows come back in their order.
C13_RowsOfHeaderArity ==
    (op = "parse_db_results" /\ PlainText(arg)
     /\ Contains(TextLines(arg.v)[1], <<"|">>))
        => /\ ret.kind = "return"
           /\ ret.val = PyList(DescribedRecords(RowLines(arg.v)))

\* Of a row with three cells and a row with two under a header of two, the
\* second alone came back, as name -> Foo, description -> Bar.
C13_LongRowDropped ==
    /\ op = "parse_db_results"
    /\ arg = PyStr(<<"name", " ", "|", " ", "description", "\n",
                     "Foo", " ", "|", " ", "Bar", " ", "|", " ", "Baz", "\n",
                     "Foo", " ", "|", " ", "Bar">>)
    /\ ret.val = PyList(<<PyDict(<<<<"name">>, <<"description">>>>,
                                 (<<"name">> :> PyStr(<<"Foo">>))
                                 @@ (<<"description">> :> PyStr(<<"Bar">>)))>>)

\* ----------------------------------------------- the views on their own
MaxRecords == 3     \* most records of a generated sequence

\* A description of n characters, no two windows of it alike.
Letters == <<"a", "b", "c", "d", "e", "f", "g">>
Chars(n) == [i \in 1..n |-> Letters[(i % 7) + 1]]

\* Records with and without name, category and description; descriptions
\* short, of DescLimit characters, of one more, and null; a null name.
Record(name, category, description) ==
    Field(Field(Field(EmptyDict, <<"name">>, name), <<"category">>, category),
          <<"description">>, description)

Records ==
    { Record(Absent, Absent, PyStr(Chars(DescLimit + 1))),
      Record(PyStr(<<"alpha">>), PyStr(<<"travel">>), PyStr(Chars(DescLimit))),
      Record(PyStr(<<"beta">>), PyStr(<<"travel">>), PyStr(Chars(2))),
      Record(PyStr(<<"alpha">>), PyStr(<<"system">>), Absent),
      Record(PyStr(<<"alpha">>), PyStr(<<"travel">>), PyNone),
      Record(PyNone, PyStr(<<"travel">>), Absent) }

RecordLists == {PyList(rs) : rs \in UNION {[1..n -> Records] : n \in 0..MaxRecords}}

FormatPromptList(prompts) ==
    /\ Called("format_prompt_list", prompts, <<>>,
              [pend |-> pending_format_requests, out |-> format_prompt_list(prompts)])
    /\ popped' = FALSE
    /\ again' = FALSE
    /\ reissue' = 0

CreatePromptEditorView(prompts) ==
    /\ Called("create_prompt_editor_view", prompts, <<>>,
              [pend |-> pending_format_requests, out |-> create_prompt_editor_view(prompts)])
    /\ popped' = FALSE
    /\ again' = FALSE
    /\ reissue' = 0

NextView ==
    \/ \E prompts \in RecordLists : FormatPromptList(prompts)
    \/ \E prompts \in RecordLists : CreatePromptEditorView(prompts)

SpecView == Init /\ [][NextView]_vars

\* The parts that make a document: headings, the table's head, the statistics.
DocumentParts ==
    { "# Available Prompts\n\n", "# Prompt Management Dashboard\n\n",
      "## All Prompts\n\n", "| Category | Name | Description | Actions |\n",
      "|----------|------|-------------|----------|\n", "## Quick Stats\n\n",
      "- Total prompts: ", "- Categories: " }

\* C14: for the empty sequence the list view and the dashboard view each
\* return a fixed sentence, not a document with headings, table or statistics.
C14_EmptyGivesSentinel ==
    (op \in {"format_prompt_list", "create_prompt_editor_view"} /\ arg = PyList(<<>>))
        => /\ ret.kind = "return"
           /\ \A i \in 1..Len(ret.val) : ret.val[i] \notin DocumentParts

\* Reading a dashboard: the number after a label, the per-group counts, the
\* data rows.
NumOf(c) == CHOOSE n \in 0..(MaxRecords + 1) : NumText(n) = c
After(text, label) == text[(CHOOSE i \in 1..Len(text) : text[i] = label) + 1]
CountPlaces(text) == {i \in 1..Len(text) : text[i] = " prompts\n"}
RECURSIVE SumAt(_, _)
SumAt(text, places) ==
    IF places = {} THEN 0
    ELSE NumOf(text[(CHOOSE i \in places : TRUE) - 1])
         + SumAt(text, places \ {CHOOSE i \in places : TRUE})
SumOfGroupCounts(text) == SumAt(text, CountPlaces(text))
DataRows(text) == Cardinality({i \in 1..Len(text) : text[i] = "[View](/prompts view "})

\* The groups of a sequence of records: the categories, Uncategorized for a
\* record without one.
GroupLabel(r) == IF DictHas(r, <<"category">>) THEN r.m[<<"category">>]
                 ELSE PyStr(<<"Uncategorized">>)
GroupsOf(rs) == {GroupLabel(rs[i]) : i \in 1..Len(rs)}

CountsAgree(text, rs) ==
    /\ NumOf(After(text, "- Total prompts: ")) = Len(rs)
    /\ NumOf(After(text, "- Categories: ")) = Cardinality(GroupsOf(rs))
    /\ SumOfGroupCounts(text) = Len(rs)
    /\ DataRows(text) = Len(rs)

\* C15: for every sequence of N records in G category groups the dashboard
\* reports N as total and G as number of groups, its per-group counts sum to
\* N and its table has N data rows.
C15_DashboardCounts ==
    op = "create_prompt_editor_view"
        => (ret.kind = "return" /\ CountsAgree(ret.val, arg.v))

\* How the claim has a description shown.
ShownDescription(d) ==
    IF Len(d) > DescLimit THEN SubSeq(d, 1, DescLimit) \o <<"...">> ELSE d
HasDescription(r) == DictHas(r, <<"description">>) /\ r.m[<<"description">>].t = "str"
ShownIn(text, r) ==
    Contains(text, <<" | ">> \o ShownDescription(r.m[<<"description">>].v) \o <<" | ">>)

\* C16: in the dashboard a description of more than 50 characters is shown
\* as its first 50 characters and the ellipsis marker, a description of 50
\* characters or fewer as it is, with no marker.
C16_DescriptionCutAtLimit ==
    (op = "create_prompt_editor_view" /\ ret.kind = "return")
        => \A i \in 1..Len(arg.v) : HasDescription(arg.v[i]) => ShownIn(ret.val, arg.v[i])

\* A dashboard shows a description of 51 characters cut to 50 with the marker
\* next to one of 50 characters left whole.
C16_CutAndUncut ==
    /\ op = "create_prompt_editor_view"
    /\ ret.kind = "return"
    /\ Contains(ret.val, <<" | ">> \o Chars(DescLimit) \o <<"...", " | ">>)
    /\ Contains(ret.val, <<" | ">> \o Chars(DescLimit) \o <<" | ">>)
    /\ \E i \in 1..Len(arg.v) :
           /\ HasDescription(arg.v[i])
           /\ Len(arg.v[i].m[<<"description">>].v) = DescLimit + 1

\* What holds of the counts whenever the dashboard is returned.
CountsWhenReturned ==
    (op = "create_prompt_editor_view" /\ ret.kind = "return")
        => CountsAgree(ret.val, arg.v)

\* ------------------------------------------- register_command after startup
NewNames == { <<"extra">>, <<"t">> }
NewAliases == { <<>>, << <<"x">> >>, << <<"x">>, <<"travel">> >> }
HelpLines == { <<"/", "help">>, <<"/", "x">>, <<"/", "travel">>, <<"/", "help", " ", "t">> }

RegisterCommand(name, aliases) ==
    /\ commands' = register_command(commands, name, <<"An extra command">>,
                                    "_handle_servers", <<"/">> \o name, aliases)
    /\ op' = "register_command"
    /\ arg' = name
    /\ raw' = <<>>
    /\ ret' = Ret(NoneT)
    /\ popped' = FALSE
    /\ again' = FALSE
    /\ reissue' = 0
    /\ UNCHANGED pending_format_requests
    /\ UNCHANGED bridge

NextReg ==
    \/ \E name \in NewNames, aliases \in NewAliases : RegisterCommand(name, aliases)
    \/ \E input_text \in HelpLines : ExecuteCommand(input_text, NoFault)

SpecReg == Init /\ [][NextReg]_vars

\* The names of the registered commands, and the entries the help text has
\* for a name.
CanonicalNames == {commands.m[k].name : k \in DOMAIN commands.m}
EntriesOf(text, name) ==
    {i \in 1..Len(text) : text[i] = "* **/" /\ SubSeq(text, i + 1, i + Len(name)) = name
                          /\ text[i + Len(name) + 1] = "** - "}
AllEntries(text) == {i \in 1..Len(text) : text[i] = "* **/"}

\* C17: after register_command(name, ..., aliases) the name and each alias
\* look up the same command; the help text has one entry for each command
\* name, however many aliases it has, and eight for the registry built at
\* startup.
C17_AliasesShareOneEntry ==
    /\ op = "register_command" =>
           /\ commands.m[arg].name = arg
           /\ \A i \in 1..Len(commands.m[arg].aliases) :
                  /\ DictHas(commands, commands.m[arg].aliases[i])
                  /\ commands.m[commands.m[arg].aliases[i]] = commands.m[arg]
    /\ (op = "execute_command" /\ arg = <<"/", "help">>) =>
           /\ ret.kind = "return"
           /\ \A name \in CanonicalNames : Cardinality(EntriesOf(ret.val, name)) = 1
           /\ Cardinality(AllEntries(ret.val)) = Cardinality(CanonicalNames)
           /\ commands = register_default_commands => Cardinality(AllEntries(ret.val)) = 8

\* A command with two aliases, one of them the name of another command, has
\* been registered, and help lists each of the nine names once.
C17_ListedOnceAfterRegister ==
    /\ op = "execute_command"
    /\ arg = <<"/", "help">>
    /\ DictHas(commands, <<"x">>)
    /\ DictHas(commands, <<"extra">>)
    /\ commands.m[<<"x">>] = commands.m[<<"extra">>]
    /\ commands.m[<<"travel">>] = commands.m[<<"extra">>]
    /\ Cardinality(AllEntries(ret.val)) = 9

\* C18: an execute_command of a line whose entry is pending writes that entry
\* again, the one a first call of the line writes, so the line has one entry;
\* of the two format_command_result calls that follow for the line, the first
\* finds the entry, removes it and returns a formatted text, and the second
\* finds none and returns its raw result unchanged.
C18_LastWriteWins ==
    /\ reissue = 3 =>
           /\ op = "execute_command"
           /\ arg \in DOMAIN pending_format_requests
           /\ \E fault \in Faults :
                  /\ Writes(arg, fault)
                  /\ pending_format_requests[arg]
                         = execute_command(commands, <<>>, arg, fault).pend[arg]
    /\ reissue = 2 =>
           /\ op = "format_command_result"
           /\ popped
           /\ arg \notin DOMAIN pending_format_requests
           /\ ret.kind = "return"
           /\ ret.val # raw
    /\ reissue = 1 =>
           /\ op = "format_command_result"
           /\ ~popped
           /\ ret = Ret(raw)

\* Both results of a line executed twice have been fed back, and the second
\* came back as it was.
C18_SecondPassedThrough ==
    /\ reissue = 1
    /\ op = "format_command_result"
    /\ raw # <<>>
    /\ ret = Ret(raw)

\* C19: a key of pending_format_requests stays a key through every call but a
\* format_command_result on that very key: execute_command, should_format_result,
\* parse_command, is_slash_command and a format_command_result on another key
\* all leave it pending.
C19_PendingUntilResolved ==
    [][ \A key \in DOMAIN pending_format_requests :
            key \notin DOMAIN pending_format_requests'
                => (op' = "format_command_result" /\ arg' = key)
      ]_vars

\* A format_command_result has consumed the entry of its key and the entries
\* of other keys are still there.
C19_OthersStillPending ==
    /\ op = "format_command_result"
    /\ popped
    /\ arg \notin DOMAIN pending_format_requests
    /\ pending_format_requests # <<>>

\* C20: after any sequence of parse_command, is_slash_command, execute_command
\* (of known and unknown commands), should_format_result and
\* format_command_result calls, commands is the registry that construction
\* left: the same names and aliases, each bound to the same command.
C20_RegistryAsConstructed ==
    commands = register_default_commands

\* An unknown command has been executed while entries of earlier commands were
\* pending, and the registry is the one of construction.
C20_UnknownExecutedRegistryKept ==
    /\ op = "execute_command"
    /\ arg = <<"/", "FOO">>
    /\ ~Registered(arg)
    /\ pending_format_requests # <<>>
    /\ commands = register_default_commands

\* The records of a list in one order: a bijection from positions to items.
Orderings(items) ==
    {p \in [1..Len(items) -> 1..Len(items)] :
        \A i, j \in 1..Len(items) : p[i] = p[j] => i = j}

\* Ascending by category name, and by name within a category.
Before(x, y) ==
    \/ Less(Category(x), Category(y))
    \/ Category(x) = Category(y) /\ ~Less(Name(y), Name(x))

Ascending(items, p) ==
    \A i, j \in 1..Len(items) : i < j => Before(items[p[i]], items[p[j]])

\* The list document of the records taken in the order p: a heading where
\* the category changes, one line per record, a blank line closing a group.
ListedAt(items, p, i) ==
    (IF i = 1 \/ Category(items[p[i]]) # Category(items[p[i - 1]])
     THEN <<"## ">> \o FStr(Category(items[p[i]])) \o <<"\n\n">> ELSE <<>>)
    \o PromptLine(items[p[i]])
    \o (IF i = Len(items) \/ Category(items[p[i]]) # Category(items[p[i + 1]])
        THEN <<"\n">> ELSE <<>>)

Listed(items, p) ==
    <<"# Available Prompts\n\n">>
    \o Join([i \in 1..Len(items) |-> ListedAt(items, p, i)], <<>>)

\* C21: format_prompt_list of a non-empty list of records returns the document
\* of those records, each exactly once, grouped by category (Uncategorized
\* when absent), the groups ascending by category and the records of a group
\* ascending by name (the empty string when absent).
C21_GroupedAndSorted ==
    (op = "format_prompt_list" /\ arg.t = "list" /\ arg.v # <<>>)
        => /\ ret.kind = "return"
           /\ \E p \in Orderings(arg.v) :
                  Ascending(arg.v, p) /\ ret.val = Listed(arg.v, p)

\* Whenever format_prompt_list returns for a non-empty list of records, what
\* it returns is that document.
ListedWhenReturned ==
    (op = "format_prompt_list" /\ arg.t = "list" /\ arg.v # <<>> /\ ret.kind = "return")
        => \E p \in Orderings(arg.v) :
               Ascending(arg.v, p) /\ ret.val = Listed(arg.v, p)

\* Three records of two categories came back listed.
ListedThree ==
    /\ op = "format_prompt_list"
    /\ arg.t = "list"
    /\ Len(arg.v) = MaxRecords
    /\ ret.kind = "return"
    /\ Cardinality({Category(arg.v[i]) : i \in 1..Len(arg.v)}) = 2
    /\ Cardinality({Name(arg.v[i]) : i \in 1..Len(arg.v)}) > 1

\* C22: execute_command of a line that is no slash command, one for which
\* parse_command yields no command name, returns None.
C22_NoCommandNoOutput ==
    (op = "execute_command" /\ CommandOf(arg) = NoneT) => ret = Ret(NoneT)

\* The tokens of a line after its command word.
TokensAfter(input_text) ==
    LET p == parse_command(input_text)
    IN  IF p.subcommand = NoneT THEN <<>> ELSE <<p.subcommand>> \o p.args

IsCreatePrompt(input_text) ==
    /\ Registered(input_text)
    /\ commands.m[CommandOf(input_text)].name = <<"create-prompt">>

\* name, description, category and content as they stand in the VALUES list
ValuesOf(name, description, category, content) ==
    name \o <<"', '">> \o description \o <<"', '">> \o category \o <<"', '">>
    \o content \o <<"', '">>

\* C23: execute_command of a create-prompt line with the four tokens name,
\* description, category, content (and possibly tags) after the command word
\* returns the INSERT directive whose values are the first token as name, the
\* second as description, the third as category and the fourth as content.
C23_FourTokensInserted ==
    (op = "execute_command" /\ IsCreatePrompt(arg) /\ Len(TokensAfter(arg)) \in {4, 5})
        => /\ ret.kind = "return"
           /\ StartsWith(ret.val, Directive)
           /\ Contains(ret.val, ValuesOf(TokensAfter(arg)[1], TokensAfter(arg)[2],
                                         TokensAfter(arg)[3], TokensAfter(arg)[4]))

\* The lines that reach their command by an alias, and the same line with the
\* canonical name in place of the alias.
AliasLines ==
    {l \in Lines : Registered(l) /\ commands.m[CommandOf(l)].name # CommandOf(l)}

CanonicalLine(l) == <<"/">> \o commands.m[CommandOf(l)].name \o SubSeq(l, 3, Len(l))

\* C24: an execute_command of an alias line returns the text that the
\* execute_command of its canonical line returns from the same state, and
\* afterwards either each line is a key of pending_format_requests, with the
\* same value, or neither is.
C24_AliasLikeCanonical ==
    [][ (op' = "execute_command" /\ arg' \in AliasLines)
            => \E fault \in Faults :
                   LET canonical == CanonicalLine(arg')
                       c == execute_command(commands, pending_format_requests,
                                            canonical, fault)
                   IN  /\ ret' = c.out
                       /\ (arg' \in DOMAIN pending_format_requests')
                              <=> (canonical \in DOMAIN c.pend)
                       /\ (arg' \in DOMAIN pending_format_requests')
                              => pending_format_requests'[arg'] = c.pend[canonical]
      ]_vars

\* From any state the two lines are answered with the same text, whatever
\* becomes of pending_format_requests.
SameTextForAlias ==
    \A l \in AliasLines, fault \in Faults :
        execute_command(commands, pending_format_requests, l, fault).out
            = execute_command(commands, pending_format_requests, CanonicalLine(l), fault).out

\* ------------------------------------------------------- MCPBridge
\* The remote side (MCPClient, its session and its connector) answers a call
\* with a value or with an exception; Failed(m) is an exception whose str is m.
Failed(m) == [t |-> "raise", msg |-> m]

\* An attribute an object does not have.
NoAttr == <<"<no attribute>">>

NotInitialized == Raise("RuntimeError", <<"Bridge not initialized">>)

\* initialize: the client is made from the configuration, then the session is
\* created; whatever fails is raised again, with what was assigned before it.
initialize(cl, se, outcome) ==
    CASE outcome = "no_config" ->
            [client |-> cl, session |-> se,
             out |-> Raise("Exception", <<"no configuration">>)]
      [] outcome = "no_session" ->
            [client |-> <<"MCPClient">>, session |-> se,
             out |-> Raise("Exception", <<"no session">>)]
      [] OTHER ->
            [client |-> <<"MCPClient">>, session |-> <<"MCPSession">>,
             out |-> Ret(NoneT)]

\* The schema of a listed tool: its annotations when it has any (dumped by
\* model_dump or dict, else read attribute by attribute), else its
\* inputSchema, else the default.
DefaultSchema == [type |-> <<"object">>]

AttrOr(attrs, name, default) == IF name \in DOMAIN attrs THEN attrs[name] ELSE default

ExtractedSchema(attrs) ==
    LET schema == [type |-> AttrOr(attrs, "type", <<"object">>),
                   properties |-> AttrOr(attrs, "properties", <<>>),
                   required |-> AttrOr(attrs, "required", <<>>)]
    IN  IF "additionalProperties" \in DOMAIN attrs
        THEN [x \in DOMAIN schema \cup {"additionalProperties"} |->
                 IF x = "additionalProperties" THEN attrs[x] ELSE schema[x]]
        ELSE schema

NoAnnotations == [how |-> "none"]

SchemaOf(tool) ==
    IF tool.annotations # NoAnnotations
    THEN IF tool.annotations.how \in {"model_dump", "dict"}
         THEN tool.annotations.dump
         ELSE ExtractedSchema(tool.annotations.attrs)
    ELSE IF tool.inputSchema # PyNone THEN tool.inputSchema
    ELSE DefaultSchema

McpTool(tool) ==
    [name |-> tool.name,
     description |-> IF Truthy(tool.description) THEN tool.description
                     ELSE <<"Tool: ">> \o tool.name,
     inputSchema |-> SchemaOf(tool)]

list_tools(se, remote) ==
    IF se = NoneT THEN NotInitialized
    ELSE IF remote.t = "raise" THEN Ret(<<>>)
    ELSE IF \E i \in 1..Len(remote.v) : remote.v[i].name = NoAttr THEN Ret(<<>>)
    ELSE Ret([i \in 1..Len(remote.v) |-> McpTool(remote.v[i])])

\* str(item.text) if the item has a text, else str(item)
ItemText(item) == IF item.text # NoAttr THEN StrOpt(item.text) ELSE item.str

\* The text of a tool result: the str itself, the texts of a content list
\* joined by newlines, or str(result).
ContentOf(result) ==
    CASE result.t = "str" -> result.v
      [] result.t = "content" ->
            Join([i \in 1..Len(result.v) |-> ItemText(result.v[i])], <<"\n">>)
      [] OTHER -> result.str

TextContent(text) == [type |-> "text", text |-> text]

\* A variant of call_tool that goes on without a session and reports the
\* failure of reaching into it as a tool error; C25 tells the two apart.
call_tool_unguarded(se, name, arguments, remote) ==
    IF se = NoneT
    THEN Ret(<<TextContent(<<"Error: ">>
                           \o <<"'NoneType' object has no attribute 'connector'">>)>>)
    ELSE IF remote.t = "raise"
    THEN Ret(<<TextContent(<<"Error: ">> \o remote.msg)>>)
    ELSE Ret(<<TextContent(ContentOf(remote))>>)

call_tool(se, name, arguments, remote) ==
    IF se = NoneT THEN NotInitialized
    ELSE IF remote.t = "raise"
    THEN Ret(<<TextContent(<<"Error: ">> \o remote.msg)>>)
    ELSE Ret(<<TextContent(ContentOf(remote))>>)

\* cleanup closes the sessions of the client, when there is one; a failure of
\* closing is raised to the caller.
cleanup(cl, closing) ==
    IF cl # NoneT /\ closing.t = "raise" THEN Raise("Exception", closing.msg)
    ELSE Ret(NoneT)

\* ------------------------------------------------------- the bridge session
InitOutcomes == {"ok", "no_config", "no_session"}

MaxTools == 2       \* most tools of a remote listing

RemoteTool(name, description, annotations, inputSchema) ==
    [name |-> name, description |-> description, annotations |-> annotations,
     inputSchema |-> inputSchema]

QuerySchema == [type |-> <<"object">>, required |-> <<"q">>]

RemoteTools ==
    { RemoteTool(<<"search">>, <<"Search the web">>, NoAnnotations, QuerySchema),
      RemoteTool(<<"fetch">>, NoneT, NoAnnotations, PyNone),
      RemoteTool(<<"search">>, <<>>, [how |-> "model_dump", dump |-> QuerySchema], PyNone),
      RemoteTool(<<"fetch">>, NoneT,
                 [how |-> "attrs", attrs |-> [additionalProperties |-> <<"False">>]],
                 QuerySchema),
      RemoteTool(NoAttr, NoneT, NoAnnotations, PyNone) }

Listings ==
    {Failed(<<"timeout">>)}
    \cup {[t |-> "list", v |-> ts] : ts \in UNION {[1..n -> RemoteTools] : n \in 0..MaxTools}}

ToolNames == {<<"search">>, <<"fetch">>, <<"missing">>}
Arguments == {EmptyDict, DictPut(EmptyDict, <<"q">>, PyStr(<<"alpha">>))}

ToolResults ==
    { Failed(<<"timeout">>), Failed(<<>>),
      [t |-> "str", v |-> <<"42">>],
      [t |-> "str", v |-> <<>>],
      [t |-> "content", v |-> <<>>],
      [t |-> "content", v |-> <<[text |-> <<"alpha">>, str |-> <<"TextContent">>],
                               [text |-> NoAttr, str |-> <<"ImageContent">>]>>],
      [t |-> "content", v |-> <<[text |-> NoneT, str |-> <<"TextContent">>]>>],
      [t |-> "content", v |-> <<[text |-> <<"alpha">>, str |-> <<"TextContent">>],
                               [text |-> <<"beta">>, str |-> <<"TextContent">>]>>],
      [t |-> "object", str |-> <<"ToolResult">>] }

Closings == {[t |-> "closed"], Failed(<<"timeout">>)}

\* A call of a method of the bridge.
BridgeCalled(name, a, w, out) ==
    /\ op' = name
    /\ arg' = a
    /\ raw' = w
    /\ ret' = out
    /\ popped' = FALSE
    /\ again' = FALSE
    /\ reissue' = 0
    /\ UNCHANGED <<commands, pending_format_requests>>

Initialize(outcome) ==
    LET r == initialize(client, session, outcome) IN
    /\ BridgeCalled("initialize", <<>>, <<outcome>>, r.out)
    /\ client' = r.client
    /\ session' = r.session
    /\ initialized' = (initialized \/ r.out.kind = "return")

\* raw is the answer of the remote side, when the call got as far as asking.
ListTools(remote) ==
    /\ BridgeCalled("list_tools", <<>>, IF session = NoneT THEN <<>> ELSE remote,
                    list_tools(session, remote))
    /\ UNCHANGED bridge

CallTool(name, arguments, remote) ==
    /\ BridgeCalled("call_tool", <<name, arguments>>,
                    IF session = NoneT THEN <<>> ELSE remote,
                    call_tool(session, name, arguments, remote))
    /\ UNCHANGED bridge

Cleanup(closing) ==
    /\ BridgeCalled("cleanup", <<>>, IF client = NoneT THEN <<>> ELSE closing,
                    cleanup(client, closing))
    /\ UNCHANGED bridge

NextBridge ==
    \/ \E outcome \in InitOutcomes : Initialize(outcome)
    \/ \E remote \in Listings : ListTools(remote)
    \/ \E name \in ToolNames, arguments \in Arguments, remote \in ToolResults :
          CallTool(name, arguments, remote)
    \/ \E closing \in Closings : Cleanup(closing)

SpecBridge == Init /\ [][NextBridge]_vars

\* C25: while no initialize has returned, list_tools and call_tool raise
\* RuntimeError "Bridge not initialized"; once one has, call_tool returns one
\* text item, the text of the result or "Error: " and the message when the
\* remote call failed, and list_tools returns a list, the empty one when the
\* remote listing failed.
C25_BridgeSession ==
    /\ (op \in {"list_tools", "call_tool"} /\ ~initialized) => ret = NotInitialized
    /\ (op = "call_tool" /\ initialized)
           => /\ ret.kind = "return"
              /\ Len(ret.val) = 1
              /\ ret.val[1].type = "text"
              /\ raw.t = "raise" => ret.val[1].text = <<"Error: ">> \o raw.msg
              /\ raw.t = "str" => ret.val[1].text = raw.v
    /\ (op = "list_tools" /\ initialized)
           => /\ ret.kind = "return"
              /\ raw.t = "raise" => ret.val = <<>>
              /\ raw.t = "list" => Len(ret.val) \in {0, Len(raw.v)}

\* After an initialize that returned, a call_tool whose remote call failed has
\* answered with the one error item.
C25_RemoteFailureReported ==
    /\ op = "call_tool"
    /\ initialized
    /\ raw = Failed(<<"timeout">>)
    /\ ret = Ret(<<TextContent(<<"Error: ", "timeout">>)>>)

\* The texts of a content list came back as one item, joined by a newline.
ContentJoined ==
    /\ op = "call_tool"
    /\ initialized
    /\ raw.t = "content"
    /\ ret = Ret(<<TextContent(<<"alpha", "\n", "ImageContent">>)>>)

====
